---- MODULE Spec2Model ----
(***************************************************************************)
(* SENTINEL v2: composite signal prediction and walk-forward backtesting.  *)
(*                                                                         *)
(* Numbers.  The program computes in binary floating point; this module    *)
(* computes in integers.  Prices are whole currency units.  Every derived  *)
(* quantity carries its scale in its name or comment (x100 = hundredths).  *)
(* Comparisons the code makes between floats are made here between the     *)
(* scaled integers, cross-multiplied where that keeps them exact.  A NaN   *)
(* is the value NaN below, and the comparison operators lt/gt/le/ge are    *)
(* false on it, as IEEE comparisons are.                                   *)
(*                                                                         *)
(* Dates are day numbers (day 1 is a Monday); a date string of the         *)
(* program is the day number it denotes.                                   *)
(***************************************************************************)
EXTENDS Integers, Sequences, FiniteSets, TLC

(***************************************************************************)
(* Arithmetic helpers                                                      *)
(***************************************************************************)
NaN == -2000000000

IsNaN(x) == x = NaN

lt(a, b) == a # NaN /\ b # NaN /\ a < b
gt(a, b) == a # NaN /\ b # NaN /\ a > b
le(a, b) == a # NaN /\ b # NaN /\ a <= b
ge(a, b) == a # NaN /\ b # NaN /\ a >= b

Abs(x) == IF x < 0 THEN -x ELSE x
Min2(a, b) == IF a <= b THEN a ELSE b
Max2(a, b) == IF a >= b THEN a ELSE b
Sign(x) == IF x > 0 THEN 1 ELSE IF x < 0 THEN -1 ELSE 0

\* n / d rounded to the nearest integer, ties to even (Python's round).
RoundDiv(n, d) ==
    LET q == n \div d
        r == n - q * d
    IN  IF 2 * r < d THEN q
        ELSE IF 2 * r > d THEN q + 1
        ELSE IF q % 2 = 0 THEN q ELSE q + 1

RECURSIVE ISqrtBS(_, _, _)
ISqrtBS(n, lo, hi) ==
    IF lo >= hi THEN lo
    ELSE LET mid == (lo + hi + 1) \div 2
         IN  IF mid * mid <= n THEN ISqrtBS(n, mid, hi) ELSE ISqrtBS(n, lo, mid - 1)

\* floor(sqrt(n)) for 0 <= n < 2^31
ISqrt(n) == ISqrtBS(n, 0, 46340)

\* 1000 * sqrt(n), to about 4 significant digits
Sqrt1000(n) ==
    IF n <= 2000 THEN ISqrt(n * 1000000)
    ELSE IF n <= 200000 THEN 10 * ISqrt(n * 10000)
    ELSE IF n <= 20000000 THEN 100 * ISqrt(n * 100)
    ELSE 1000 * ISqrt(n)

\* The fold of Step over lo..hi, from state st: Step(...Step(Step(st, lo), lo+1)..., hi).
\* The range is split in halves so that the evaluation stays shallow; the left
\* half is evaluated (left = left) before the right half is folded from it.
RECURSIVE Fold(_, _, _, _)
Fold(Step(_, _), st, lo, hi) ==
    IF lo > hi THEN st
    ELSE IF lo = hi THEN Step(st, lo)
    ELSE LET mid  == (lo + hi) \div 2
             left == Fold(Step, st, lo, mid)
         IN  IF left = left THEN Fold(Step, left, mid + 1, hi) ELSE left

\* F applied to the value of e, which is computed once and named by F's parameter
Let(e, F(_)) == CHOOSE y \in {F(v) : v \in {e}} : TRUE

SumSeq(s, lo, hi) == LET Add(a, i) == a + s[i] IN Fold(Add, 0, lo, hi)

MinSeq(s, lo, hi) == LET Lower(a, i) == Min2(a, s[i]) IN Fold(Lower, s[lo], lo, hi)

MaxSeq(s, lo, hi) == LET Higher(a, i) == Max2(a, s[i]) IN Fold(Higher, s[lo], lo, hi)

Last(s) == s[Len(s)]

\* A line of reasoning: the text, and the number the code formats into it
\* (Plain where the text has none)
Reason(text, value) == [text |-> text, value |-> value]
Plain(text) == Reason(text, 0)

(***************************************************************************)
(* The data source (Yahoo Finance behind yf.download).  Its content is     *)
(* one of a family of daily price series, each built from straight legs;   *)
(* bars exist on weekdays only.                                            *)
(***************************************************************************)
NBars == 120
BasePrice == 1000

\* date of the k-th trading day: weeks of five bars, Saturday and Sunday skipped
BarDate(k) == 7 * ((k - 1) \div 5) + ((k - 1) % 5) + 1

Leg(n, step) == [n |-> n, step |-> step]

Zigzag(n) == [k \in 1..(2 * n) |-> IF k % 2 = 1 THEN Leg(1, 6) ELSE Leg(1, -5)]

\* a range 3% wide: ten bars up, ten bars down, n times over
Range(n) == <<Leg(1, 0)>> \o [k \in 1..(2 * n) |-> IF k % 2 = 1 THEN Leg(10, 3) ELSE Leg(10, -3)]

\* legs: the straight runs of the Close; up/dn: High and Low around the Close
Shapes ==
    << [legs |-> <<Leg(120, 0)>>, up |-> 0, dn |-> 0],
       [legs |-> <<Leg(120, 3)>>, up |-> 4, dn |-> 4],
       [legs |-> <<Leg(120, -3)>>, up |-> 4, dn |-> 4],
       [legs |-> <<Leg(25, -6), Leg(15, 5), Leg(15, -5), Leg(30, 5), Leg(35, -1)>>,
        up |-> 4, dn |-> 4],
       [legs |-> <<Leg(25, 6), Leg(15, -5), Leg(15, 5), Leg(30, -5), Leg(35, 1)>>,
        up |-> 4, dn |-> 4],
       [legs |-> <<Leg(20, 4), Leg(10, -4), Leg(15, 6), Leg(15, -6), Leg(10, 4),
                   Leg(25, -4), Leg(25, 2)>>, up |-> 3, dn |-> 5],
       [legs |-> Zigzag(60), up |-> 4, dn |-> 4],
       [legs |-> <<Leg(90, 2), Leg(30, -8)>>, up |-> 4, dn |-> 4],
       \* three peaks, the middle one highest, then a fall through the troughs
       [legs |-> <<Leg(21, 5), Leg(12, -5), Leg(16, 5), Leg(16, -5), Leg(12, 5),
                   Leg(20, -8), Leg(23, 0)>>, up |-> 4, dn |-> 4],
       \* the same with a lower fourth peak on the way down
       [legs |-> <<Leg(21, 5), Leg(12, -5), Leg(16, 5), Leg(16, -5), Leg(12, 5),
                   Leg(8, -8), Leg(3, 6), Leg(14, -8), Leg(18, 0)>>, up |-> 4, dn |-> 4],
       \* a price held between a support and a resistance 3% apart
       [legs |-> Range(6), up |-> 4, dn |-> 4] >>

NShapes == Len(Shapes)

\* the Close of bars 1..NBars: the first bar is at BasePrice, every later bar
\* moves by the step of its leg (li: the leg, left: its bars still to come)
Closes(legs) ==
    LET NextBar(st, k) ==
            LET adv == st.left = 0 /\ st.li < Len(legs)
                li  == IF adv THEN st.li + 1 ELSE st.li
                lf  == IF adv THEN legs[li].n ELSE st.left
                c   == IF k = 1 THEN BasePrice ELSE st.c + legs[li].step
            IN  [li |-> li, left |-> Max2(lf - 1, 0), c |-> c, acc |-> Append(st.acc, c)]
    IN  Fold(NextBar, [li |-> 1, left |-> legs[1].n, c |-> BasePrice, acc |-> <<>>],
             1, NBars).acc

ShapeCloses(sh) == Closes(Shapes[sh].legs)

\* The bars the source holds for a scenario.  Bars dated after scn.agree are
\* shifted by `tail` (0 for the source itself, scn.tail for its variant).
Bars(scn, tail) ==
    Let(ShapeCloses(scn.shape), LAMBDA cl :
    Let(Shapes[scn.shape], LAMBDA sh :
        [k \in 1..Len(cl) |->
            LET d == IF BarDate(k) > scn.agree THEN tail ELSE 0
            IN  [date   |-> BarDate(k),
                 Open   |-> (IF k = 1 THEN cl[1] ELSE cl[k - 1]) + d,
                 High   |-> cl[k] + sh.up + d,
                 Low    |-> cl[k] - sh.dn + d,
                 Close  |-> cl[k] + d,
                 Volume |-> 100 + 10 * (k % 4)]]))

\* the bars with lo <= date <= hi
SelectBars(rows, lo, hi) ==
    LET InRange(b) == lo <= b.date /\ b.date <= hi
    IN  SelectSeq(rows, InRange)

\* yf.download(ticker, start, end): the bars dated start <= date < end.  Whether
\* a bar dated exactly `end` is returned is the source's convention
\* (scn.endIncl); the program is written to work with either.
Download(rows, cols, start, end, endIncl) ==
    [columns |-> cols,
     rows    |-> SelectBars(rows, start, IF endIncl THEN end ELSE end - 1)]

Column(data, name) == [i \in 1..Len(data.rows) |-> data.rows[i][name]]

(***************************************************************************)
(* Indicator library (src/analysis/technical.py).  A series is a sequence  *)
(* of integers; each indicator is given with the bar i it is read at, and  *)
(* is the value the code's series holds at that bar.                       *)
(***************************************************************************)
RsiScale == 100000

\* one step of ewm(alpha = 1/period): the weighted sum decays by (period-1)/period
\* and never reaches 0 from a positive value
EwmDecay(x, period) == IF x = 0 THEN 0 ELSE Max2(1, RoundDiv((period - 1) * x, period))

\* the weighted sums of gains and losses over bars 1..i (both x RsiScale);
\* the first bar has no delta and counts as gain 0, loss 0
RsiSums(series, period, i) ==
    LET Bar(prev, k) ==
            LET delta == series[k] - series[k - 1]
                gain  == IF delta > 0 THEN delta ELSE 0
                loss  == -(IF delta < 0 THEN delta ELSE 0)
            IN  [gain |-> gain * RsiScale + EwmDecay(prev.gain, period),
                 loss |-> loss * RsiScale + EwmDecay(prev.loss, period)]
    IN  Fold(Bar, [gain |-> 0, loss |-> 0], 2, i)

\* a faulty variant: with no loss the RSI is 100
calc_rsi_saturating(series, period, i) ==
    IF i < period THEN NaN
    ELSE Let(RsiSums(series, period, i), LAMBDA s :
         LET q  == 1 + (s.gain + s.loss) \div (200 * RsiScale)
             g  == s.gain \div q
             d  == Max2(1, (s.gain + s.loss) \div q)
             r1 == (100 * g) % d
             r2 == (100 * r1) % d
         IN  IF s.loss = 0 THEN 100000
             ELSE 1000 * ((100 * g) \div d) + 10 * ((100 * r1) \div d) + RoundDiv(10 * r2, d))

\* RSI at bar i, x1000; NaN before `period` bars and when the average loss is 0
calc_rsi(series, period, i) ==
    IF i < period THEN NaN
    ELSE Let(RsiSums(series, period, i), LAMBDA s :
         LET q  == 1 + (s.gain + s.loss) \div (200 * RsiScale)
             g  == s.gain \div q
             d  == Max2(1, (s.gain + s.loss) \div q)
             r1 == (100 * g) % d
             r2 == (100 * r1) % d
         IN  IF s.loss = 0 THEN NaN
             ELSE 1000 * ((100 * g) \div d) + 10 * ((100 * r1) \div d) + RoundDiv(10 * r2, d))

MacdScale == 10000

\* ewm(span, adjust=False): y[1] = x[1], y[i] = ((span-1) y[i-1] + 2 x[i]) / (span+1)
EmaStep(prev, x, span) == RoundDiv((span - 1) * prev + 2 * x, span + 1)

\* MACD line, signal line and histogram at bar i (x MacdScale)
MacdFold(series, fast, slow, signal_period, i) ==
    LET Bar(prev, k) ==
            LET f == EmaStep(prev.ema_fast, series[k] * MacdScale, fast)
                s == EmaStep(prev.ema_slow, series[k] * MacdScale, slow)
                g == EmaStep(prev.signal_line, f - s, signal_period)
            IN  [ema_fast |-> f, ema_slow |-> s, macd_line |-> f - s,
                 signal_line |-> g, histogram |-> (f - s) - g]
    IN  Fold(Bar, [ema_fast |-> series[1] * MacdScale, ema_slow |-> series[1] * MacdScale,
                   macd_line |-> 0, signal_line |-> 0, histogram |-> 0], 2, i)

calc_macd(series, fast, slow, signal_period, i) ==
    MacdFold(series, fast, slow, signal_period, i)

\* rolling(window).mean() at bar i, x1000; NaN before `window` bars
RollingMean(series, window, i) ==
    IF i < window THEN NaN
    ELSE RoundDiv(1000 * SumSeq(series, i - window + 1, i), window)

\* sum over lo..hi of (n x - total)^2
SumSqDev(series, lo, hi, n, total) ==
    LET Add(a, k) == a + (n * series[k] - total) * (n * series[k] - total)
    IN  Fold(Add, 0, lo, hi)

\* Bollinger bands at bar i, x1000.  std is the sample standard deviation:
\* sqrt(sum((n x - total)^2) / (n^2 (n-1)))
calc_bollinger(series, period, num_std, i) ==
    IF i < period THEN [upper |-> NaN, middle |-> NaN, lower |-> NaN]
    ELSE Let(SumSeq(series, i - period + 1, i), LAMBDA total :
         Let(RoundDiv(1000 * total, period), LAMBDA middle :
         Let(Sqrt1000(SumSqDev(series, i - period + 1, i, period, total)), LAMBDA dev :
         \* 1000 * sqrt(period^2 (period - 1)), as a whole number
         Let(Sqrt1000(period * period * (period - 1)), LAMBDA root :
         Let((dev \div root) * 1000 + RoundDiv((dev % root) * 1000, root), LAMBDA std :
             [upper  |-> middle + num_std * std,
              middle |-> middle,
              lower  |-> middle - num_std * std])))))

\* calc_moving_averages: period -> simple moving average at bar i, x1000
DefaultPeriods == {5, 25, 75}

calc_moving_averages(series, periods, i) ==
    [p \in periods |-> RollingMean(series, p, i)]

\* a faulty variant: the larger count wins, however small
OverallVote_plurality(buy_count, sell_count, total) ==
    IF buy_count > sell_count THEN "BUY"
    ELSE IF sell_count > buy_count THEN "SELL"
    ELSE "HOLD"

\* the majority vote of generate_signals; count > total / 3 is 3 count > total
OverallVote(buy_count, sell_count, total) ==
    IF buy_count > sell_count /\ 3 * buy_count > total THEN "BUY"
    ELSE IF sell_count > buy_count /\ 3 * sell_count > total THEN "SELL"
    ELSE "HOLD"

\* generate_signals(df): the signal of each indicator at the last bar and the
\* overall vote.  df has at least one bar and a Close column.
generate_signals(df) ==
    Let(Column(df, "Close"), LAMBDA close :
    Let(Len(close), LAMBDA n :
    Let(calc_rsi(close, 14, n), LAMBDA rsi_val :
    Let(calc_macd(close, 12, 26, 9, n), LAMBDA m1 :
    Let(calc_macd(close, 12, 26, 9, Max2(n - 1, 1)), LAMBDA m2 :
    Let(calc_bollinger(close, 20, 2, n), LAMBDA bb :
    Let(calc_moving_averages(close, DefaultPeriods, n), LAMBDA mas :
    LET last == close[n] * 1000
        rsi == IF lt(rsi_val, 30000) THEN "BUY"
               ELSE IF gt(rsi_val, 70000) THEN "SELL"
               ELSE "HOLD"
        macd == IF m1.macd_line > m1.signal_line /\ m2.macd_line <= m2.signal_line
                THEN "BUY"
                ELSE IF m1.macd_line < m1.signal_line /\ m2.macd_line >= m2.signal_line
                THEN "SELL"
                ELSE "HOLD"
        bollinger == IF le(last, bb.lower) THEN "BUY"
                     ELSE IF ge(last, bb.upper) THEN "SELL"
                     ELSE "HOLD"
        ma_cross == IF gt(mas[5], mas[25]) THEN "BUY" ELSE "SELL"
        names == {"rsi", "macd", "bollinger"}
                     \cup (IF 5 \in DOMAIN mas /\ 25 \in DOMAIN mas THEN {"ma_cross"} ELSE {})
    IN  Let([name \in names |->
                 IF name = "rsi" THEN rsi
                 ELSE IF name = "macd" THEN macd
                 ELSE IF name = "bollinger" THEN bollinger
                 ELSE ma_cross], LAMBDA signals :
        Let(Cardinality({name \in names : signals[name] = "BUY"}), LAMBDA buy_count :
        Let(Cardinality({name \in names : signals[name] = "SELL"}), LAMBDA sell_count :
            [signals |-> signals,
             overall |-> [signal |-> OverallVote(buy_count, sell_count, Cardinality(names)),
                          buy_count |-> buy_count, sell_count |-> sell_count,
                          total |-> Cardinality(names)]]))))))))))

(***************************************************************************)
(* Momentum library (src/analysis/advanced_indicators.py)                  *)
(***************************************************************************)
SumHL(high, low, lo, hi) == SumSeq(high, lo, hi) + SumSeq(low, lo, hi)

\* Awesome Oscillator at bar i, in units of 1/(2 fast slow):
\* SMA(median, fast) - SMA(median, slow) with median = (High + Low) / 2
calc_awesome_oscillator(high, low, fast, slow, i) ==
    IF i < slow \/ i < fast THEN NaN
    ELSE slow * SumHL(high, low, i - fast + 1, i) - fast * SumHL(high, low, i - slow + 1, i)

SarScale == 1000

\* acceleration factors in hundredths
InitialAf == 2
StepAf == 2
EndAf == 20

\* the arrays of calc_parabolic_sar at index 1 (the second bar)
PsarInit(h, l, c, initial_af) ==
    LET trend == IF c[2] > c[1] THEN 1 ELSE -1
    IN  [trend |-> trend,
         sar   |-> (IF trend > 0 THEN h[1] ELSE l[1]) * SarScale,
         real_sar |-> (IF trend > 0 THEN h[1] ELSE l[1]) * SarScale,
         ep    |-> IF trend > 0 THEN h[2] ELSE l[2],
         af    |-> initial_af]

\* a faulty variant: a flip keeps the acceleration factor it found
PsarStep_no_reset(p, h, l, k, initial_af, step_af, end_af) ==
    Let(p.sar + RoundDiv(p.af * (p.ep * SarScale - p.sar), 100), LAMBDA temp :
    Let(IF p.trend < 0
        THEN Max2(temp, Max2(h[k - 1], h[k - 2]) * SarScale)
        ELSE Min2(temp, Min2(l[k - 1], l[k - 2]) * SarScale), LAMBDA sar :
    Let(IF p.trend < 0
        THEN IF sar < h[k] * SarScale THEN 1 ELSE p.trend - 1
        ELSE IF sar > l[k] * SarScale THEN -1 ELSE p.trend + 1, LAMBDA trend :
    Let(IF trend < 0
        THEN IF trend # -1 THEN Min2(l[k], p.ep) ELSE l[k]
        ELSE IF trend # 1 THEN Max2(h[k], p.ep) ELSE h[k], LAMBDA ep :
        IF Abs(trend) = 1
        THEN [trend |-> trend, sar |-> sar, ep |-> ep,
              real_sar |-> p.ep * SarScale, af |-> p.af]
        ELSE [trend |-> trend, sar |-> sar, ep |-> ep, real_sar |-> sar,
              af |-> IF ep = p.ep THEN p.af ELSE Min2(end_af, p.af + step_af)]))))

\* a faulty variant: the candidate is not held to the two bars before
PsarStep_unclamped(p, h, l, k, initial_af, step_af, end_af) ==
    Let(p.sar + RoundDiv(p.af * (p.ep * SarScale - p.sar), 100), LAMBDA temp :
    Let(temp, LAMBDA sar :
    Let(IF p.trend < 0
        THEN IF sar < h[k] * SarScale THEN 1 ELSE p.trend - 1
        ELSE IF sar > l[k] * SarScale THEN -1 ELSE p.trend + 1, LAMBDA trend :
    Let(IF trend < 0
        THEN IF trend # -1 THEN Min2(l[k], p.ep) ELSE l[k]
        ELSE IF trend # 1 THEN Max2(h[k], p.ep) ELSE h[k], LAMBDA ep :
        IF Abs(trend) = 1
        THEN [trend |-> trend, sar |-> sar, ep |-> ep,
              real_sar |-> p.ep * SarScale, af |-> initial_af]
        ELSE [trend |-> trend, sar |-> sar, ep |-> ep, real_sar |-> sar,
              af |-> IF ep = p.ep THEN p.af ELSE Min2(end_af, p.af + step_af)]))))

\* one turn of the loop of calc_parabolic_sar: bar k (k >= 3) from bar k-1
PsarStep(p, h, l, k, initial_af, step_af, end_af) ==
    Let(p.sar + RoundDiv(p.af * (p.ep * SarScale - p.sar), 100), LAMBDA temp :
    Let(IF p.trend < 0
        THEN Max2(temp, Max2(h[k - 1], h[k - 2]) * SarScale)
        ELSE Min2(temp, Min2(l[k - 1], l[k - 2]) * SarScale), LAMBDA sar :
    Let(IF p.trend < 0
        THEN IF sar < h[k] * SarScale THEN 1 ELSE p.trend - 1
        ELSE IF sar > l[k] * SarScale THEN -1 ELSE p.trend + 1, LAMBDA trend :
    Let(IF trend < 0
        THEN IF trend # -1 THEN Min2(l[k], p.ep) ELSE l[k]
        ELSE IF trend # 1 THEN Max2(h[k], p.ep) ELSE h[k], LAMBDA ep :
        IF Abs(trend) = 1
        THEN [trend |-> trend, sar |-> sar, ep |-> ep,
              real_sar |-> p.ep * SarScale, af |-> initial_af]
        ELSE [trend |-> trend, sar |-> sar, ep |-> ep, real_sar |-> sar,
              af |-> IF ep = p.ep THEN p.af ELSE Min2(end_af, p.af + step_af)]))))

\* the state {trend, sar, ep, af, real_sar} at bar i >= 2 of a series of >= 3 bars
PsarState(h, l, c, initial_af, step_af, end_af, i) ==
    LET Bar(p, k) == PsarStep(p, h, l, k, initial_af, step_af, end_af)
    IN  Fold(Bar, PsarInit(h, l, c, initial_af), 3, i)

\* Parabolic SAR at bar i (x SarScale); NaN at the first bar and for n < 3
calc_parabolic_sar(high, low, close, initial_af, step_af, end_af, i) ==
    IF Len(close) < 3 \/ i < 2 THEN NaN
    ELSE PsarState(high, low, close, initial_af, step_af, end_af, i).real_sar

\* %K at bar i, x1000; NaN before k_period bars and when the window has no range
StochK(high, low, close, k_period, i) ==
    IF i < k_period THEN NaN
    ELSE Let(MinSeq(low, i - k_period + 1, i), LAMBDA low_n :
         Let(MaxSeq(high, i - k_period + 1, i), LAMBDA high_n :
         LET denom == high_n - low_n
         IN  IF denom = 0 THEN NaN
             ELSE RoundDiv(100000 * (close[i] - low_n), denom)))

\* %K and %D at bar i, x1000; ks holds the last d_period %K (the last of them is
\* bar i's); %D is their mean, and NaN if any of them is
calc_stochastic(high, low, close, k_period, d_period, i) ==
    Let([j \in 1..d_period |->
            IF i - d_period + j < 1 THEN NaN
            ELSE StochK(high, low, close, k_period, i - d_period + j)], LAMBDA ks :
        [k |-> ks[d_period],
         d |-> IF \E j \in 1..d_period : IsNaN(ks[j]) THEN NaN
               ELSE RoundDiv(SumSeq(ks, 1, d_period), d_period)])

\* On Balance Volume at bar i: the running sum of volume signed by the
\* day-over-day direction of the Close; the first bar counts 0
calc_obv(close, volume, i) ==
    LET Add(a, k) == a + volume[k] * Sign(close[k] - close[k - 1])
    IN  Fold(Add, 0, 2, i)

HasColumn(df, name) == name \in df.columns

\* a faulty variant: a price equal to the Parabolic SAR counts as an uptrend
generate_advanced_signals_bullish_tie(df) ==
    Let(Column(df, "High"), LAMBDA high :
    Let(Column(df, "Low"), LAMBDA low :
    Let(Column(df, "Close"), LAMBDA close :
    Let(Len(close), LAMBDA n :
    Let(calc_awesome_oscillator(high, low, 5, 34, n), LAMBDA ao_val :
    Let(calc_awesome_oscillator(high, low, 5, 34, n - 1), LAMBDA ao_prev :
    Let(calc_parabolic_sar(high, low, close, InitialAf, StepAf, EndAf, n), LAMBDA psar_val :
    Let(calc_stochastic(high, low, close, 14, 3, n), LAMBDA kd :
    Let(IF HasColumn(df, "Volume") /\ n >= 5
        THEN LET volume == Column(df, "Volume")
             IN  calc_obv(close, volume, n) - calc_obv(close, volume, n - 4)
        ELSE 0, LAMBDA obv_trend :
    LET ao == IF IsNaN(ao_val) THEN [s |-> 0, r |-> <<>>]
              ELSE IF ao_val > 0 /\ le(ao_prev, 0)
                   THEN [s |-> 3, r |-> <<Plain("AO bullish crossover")>>]
              ELSE IF ao_val < 0 /\ ge(ao_prev, 0)
                   THEN [s |-> -3, r |-> <<Plain("AO bearish crossover")>>]
              ELSE IF ao_val > 0
                   THEN [s |-> 1, r |-> <<Plain("AO positive")>>]
              ELSE [s |-> -1, r |-> <<Plain("AO negative")>>]
        last_price == close[n]
        psar == IF IsNaN(psar_val) THEN [s |-> 0, r |-> <<>>]
                ELSE IF last_price * SarScale >= psar_val
                     THEN [s |-> 2, r |-> <<Plain("PSAR uptrend")>>]
                ELSE [s |-> -2, r |-> <<Plain("PSAR downtrend")>>]
        k_out == IF IsNaN(kd.k) THEN NaN ELSE RoundDiv(kd.k, 100)
        stoch == IF IsNaN(kd.k) THEN [s |-> 0, r |-> <<>>]
                 ELSE IF kd.k < 20000 /\ lt(kd.d, 20000)
                      THEN [s |-> 3, r |-> <<Reason("Stochastic oversold", k_out)>>]
                 ELSE IF kd.k > 80000 /\ gt(kd.d, 80000)
                      THEN [s |-> -3, r |-> <<Reason("Stochastic overbought", k_out)>>]
                 ELSE IF gt(kd.k, kd.d)
                      THEN [s |-> 1, r |-> <<Plain("Stochastic K>D")>>]
                 ELSE [s |-> -1, r |-> <<Plain("Stochastic K<D")>>]
        price_trend == IF n >= 5 THEN close[n] - close[n - 4] ELSE 0
        obv == IF ~HasColumn(df, "Volume") THEN [s |-> 0, r |-> <<>>]
               ELSE IF obv_trend > 0 /\ price_trend > 0
                    THEN [s |-> 2, r |-> <<Plain("OBV confirms uptrend")>>]
               ELSE IF obv_trend < 0 /\ price_trend < 0
                    THEN [s |-> -2, r |-> <<Plain("OBV confirms downtrend")>>]
               ELSE IF obv_trend > 0 /\ price_trend <= 0
                    THEN [s |-> 3, r |-> <<Plain("OBV bullish divergence")>>]
               ELSE IF obv_trend < 0 /\ price_trend >= 0
                    THEN [s |-> -3, r |-> <<Plain("OBV bearish divergence")>>]
               ELSE [s |-> 0, r |-> <<>>]
    IN  [score |-> ao.s + psar.s + stoch.s + obv.s,
         reasons |-> ao.r \o psar.r \o stoch.r \o obv.r])))))))))

\* generate_advanced_signals(df)["aggregate"]: the score (doubled) and reasons.
\* df must have High, Low and Close.
generate_advanced_signals(df) ==
    Let(Column(df, "High"), LAMBDA high :
    Let(Column(df, "Low"), LAMBDA low :
    Let(Column(df, "Close"), LAMBDA close :
    Let(Len(close), LAMBDA n :
    Let(calc_awesome_oscillator(high, low, 5, 34, n), LAMBDA ao_val :
    Let(calc_awesome_oscillator(high, low, 5, 34, n - 1), LAMBDA ao_prev :
    Let(calc_parabolic_sar(high, low, close, InitialAf, StepAf, EndAf, n), LAMBDA psar_val :
    Let(calc_stochastic(high, low, close, 14, 3, n), LAMBDA kd :
    Let(IF HasColumn(df, "Volume") /\ n >= 5
        THEN LET volume == Column(df, "Volume")
             IN  calc_obv(close, volume, n) - calc_obv(close, volume, n - 4)
        ELSE 0, LAMBDA obv_trend :
    LET ao == IF IsNaN(ao_val) THEN [s |-> 0, r |-> <<>>]
              ELSE IF ao_val > 0 /\ le(ao_prev, 0)
                   THEN [s |-> 3, r |-> <<Plain("AO bullish crossover")>>]
              ELSE IF ao_val < 0 /\ ge(ao_prev, 0)
                   THEN [s |-> -3, r |-> <<Plain("AO bearish crossover")>>]
              ELSE IF ao_val > 0
                   THEN [s |-> 1, r |-> <<Plain("AO positive")>>]
              ELSE [s |-> -1, r |-> <<Plain("AO negative")>>]
        last_price == close[n]
        psar == IF IsNaN(psar_val) THEN [s |-> 0, r |-> <<>>]
                ELSE IF last_price * SarScale > psar_val
                     THEN [s |-> 2, r |-> <<Plain("PSAR uptrend")>>]
                ELSE [s |-> -2, r |-> <<Plain("PSAR downtrend")>>]
        k_out == IF IsNaN(kd.k) THEN NaN ELSE RoundDiv(kd.k, 100)
        stoch == IF IsNaN(kd.k) THEN [s |-> 0, r |-> <<>>]
                 ELSE IF kd.k < 20000 /\ lt(kd.d, 20000)
                      THEN [s |-> 3, r |-> <<Reason("Stochastic oversold", k_out)>>]
                 ELSE IF kd.k > 80000 /\ gt(kd.d, 80000)
                      THEN [s |-> -3, r |-> <<Reason("Stochastic overbought", k_out)>>]
                 ELSE IF gt(kd.k, kd.d)
                      THEN [s |-> 1, r |-> <<Plain("Stochastic K>D")>>]
                 ELSE [s |-> -1, r |-> <<Plain("Stochastic K<D")>>]
        price_trend == IF n >= 5 THEN close[n] - close[n - 4] ELSE 0
        obv == IF ~HasColumn(df, "Volume") THEN [s |-> 0, r |-> <<>>]
               ELSE IF obv_trend > 0 /\ price_trend > 0
                    THEN [s |-> 2, r |-> <<Plain("OBV confirms uptrend")>>]
               ELSE IF obv_trend < 0 /\ price_trend < 0
                    THEN [s |-> -2, r |-> <<Plain("OBV confirms downtrend")>>]
               ELSE IF obv_trend > 0 /\ price_trend <= 0
                    THEN [s |-> 3, r |-> <<Plain("OBV bullish divergence")>>]
               ELSE IF obv_trend < 0 /\ price_trend >= 0
                    THEN [s |-> -3, r |-> <<Plain("OBV bearish divergence")>>]
               ELSE [s |-> 0, r |-> <<>>]
    IN  [score |-> ao.s + psar.s + stoch.s + obv.s,
         reasons |-> ao.r \o psar.r \o stoch.r \o obv.r])))))))))

(***************************************************************************)
(* Pattern detector (src/analysis/patterns.py).  A confidence is held x10  *)
(* (the code rounds it to one decimal), a tolerance in percent, a neckline *)
(* and a level x100 (the code rounds them to two decimals).                *)
(***************************************************************************)
NotDetected == [detected |-> FALSE, signal |-> "HOLD", confidence |-> 0, neckline |-> 0]

Indices(n) == [i \in 1..n |-> i]

\* the last `period` prices
Recent(prices, period) == SubSeq(prices, Len(prices) - period + 1, Len(prices))

\* abs(a - b) / max(a, b) < tolerance
Similar(a, b, tolerance) == 100 * Abs(a - b) < tolerance * Max2(a, b)

\* strict three-point local minima / maxima of the window, in bar order
LocalMinima(recent) ==
    LET IsMin(i) == /\ i > 1 /\ i < Len(recent)
                    /\ recent[i] < recent[i - 1] /\ recent[i] < recent[i + 1]
    IN  SelectSeq(Indices(Len(recent)), IsMin)

LocalMaxima(recent) ==
    LET IsMax(i) == /\ i > 1 /\ i < Len(recent)
                    /\ recent[i] > recent[i - 1] /\ recent[i] > recent[i + 1]
    IN  SelectSeq(Indices(Len(recent)), IsMax)

\* The loop of detect_double_bottom walks the pairs of consecutive minima from
\* the latest back and returns at the first pair that passes every test.
detect_double_bottom(prices, period, tolerance) ==
    IF Len(prices) < period THEN NotDetected
    ELSE Let(Recent(prices, period), LAMBDA recent :
         Let(LocalMinima(recent), LAMBDA minima :
         LET current == recent[Len(recent)]
             Peak(j) == MaxSeq(recent, minima[j - 1], minima[j])
             Passes(j) ==
                 /\ Similar(recent[minima[j - 1]], recent[minima[j]], tolerance)
                 /\ Let(Peak(j), LAMBDA peak :
                        /\ 100 * peak > (100 + tolerance) * recent[minima[j - 1]]
                        /\ current > peak)
         IN  Let({j \in 2..Len(minima) : Passes(j)}, LAMBDA hits :
             IF Len(minima) < 2 \/ hits = {} THEN NotDetected
             ELSE Let(Peak(CHOOSE k \in hits : \A m \in hits : m <= k), LAMBDA peak :
                  [detected |-> TRUE, signal |-> "BUY",
                   confidence |-> IF 1000 * (current - peak) >= 80 * peak THEN 800
                                  ELSE RoundDiv(10000 * (current - peak), peak),
                   neckline |-> 100 * peak]))))

\* a faulty variant: the pattern is reported before the price breaks the trough
detect_double_top_unconfirmed(prices, period, tolerance) ==
    IF Len(prices) < period THEN NotDetected
    ELSE Let(Recent(prices, period), LAMBDA recent :
         Let(LocalMaxima(recent), LAMBDA maxima :
         LET current == recent[Len(recent)]
             Trough(j) == MinSeq(recent, maxima[j - 1], maxima[j])
             Passes(j) ==
                 /\ Similar(recent[maxima[j - 1]], recent[maxima[j]], tolerance)
                 /\ Let(Trough(j), LAMBDA trough :
                        100 * trough < (100 - tolerance) * recent[maxima[j - 1]])
         IN  Let({j \in 2..Len(maxima) : Passes(j)}, LAMBDA hits :
             IF Len(maxima) < 2 \/ hits = {} THEN NotDetected
             ELSE Let(Trough(CHOOSE k \in hits : \A m \in hits : m <= k), LAMBDA trough :
                  [detected |-> TRUE, signal |-> "SELL",
                   confidence |-> IF 1000 * (trough - current) >= 80 * trough THEN 800
                                  ELSE RoundDiv(10000 * (trough - current), trough),
                   neckline |-> 100 * trough]))))

detect_double_top(prices, period, tolerance) ==
    IF Len(prices) < period THEN NotDetected
    ELSE Let(Recent(prices, period), LAMBDA recent :
         Let(LocalMaxima(recent), LAMBDA maxima :
         LET current == recent[Len(recent)]
             Trough(j) == MinSeq(recent, maxima[j - 1], maxima[j])
             Passes(j) ==
                 /\ Similar(recent[maxima[j - 1]], recent[maxima[j]], tolerance)
                 /\ Let(Trough(j), LAMBDA trough :
                        /\ 100 * trough < (100 - tolerance) * recent[maxima[j - 1]]
                        /\ current < trough)
         IN  Let({j \in 2..Len(maxima) : Passes(j)}, LAMBDA hits :
             IF Len(maxima) < 2 \/ hits = {} THEN NotDetected
             ELSE Let(Trough(CHOOSE k \in hits : \A m \in hits : m <= k), LAMBDA trough :
                  [detected |-> TRUE, signal |-> "SELL",
                   confidence |-> IF 1000 * (trough - current) >= 80 * trough THEN 800
                                  ELSE RoundDiv(10000 * (trough - current), trough),
                   neckline |-> 100 * trough]))))

\* rolling(3, center=True).mean(), the ends filled from their neighbours; x3
Smoothed(recent) ==
    LET n == Len(recent)
        Mid(i) == recent[i - 1] + recent[i] + recent[i + 1]
    IN  [i \in 1..n |-> IF i = 1 THEN Mid(2) ELSE IF i = n THEN Mid(n - 1) ELSE Mid(i)]

detect_head_and_shoulders(prices, period, tolerance) ==
    IF Len(prices) < period THEN NotDetected
    ELSE Let(Recent(prices, period), LAMBDA recent :
         Let(Smoothed(recent), LAMBDA smoothed :
         LET n == Len(recent)
             IsMax(i) == /\ i >= 3 /\ i <= n - 2
                         /\ smoothed[i] > smoothed[i - 1] /\ smoothed[i] > smoothed[i + 1]
                         /\ smoothed[i] > smoothed[i - 2] /\ smoothed[i] > smoothed[i + 2]
         IN  Let(SelectSeq(Indices(n), IsMax), LAMBDA maxima :
             LET current == recent[n]
                 \* twice the neckline: the two troughs bracketing the head
                 Neck2(j) == MinSeq(recent, maxima[j - 2], maxima[j - 1])
                             + MinSeq(recent, maxima[j - 1], maxima[j])
                 Passes(j) ==
                     /\ recent[maxima[j - 1]] > recent[maxima[j - 2]]
                     /\ recent[maxima[j - 1]] > recent[maxima[j]]
                     /\ Similar(recent[maxima[j - 2]], recent[maxima[j]], tolerance)
                     /\ 2 * current < Neck2(j)
             IN  Let({j \in 3..Len(maxima) : Passes(j)}, LAMBDA hits :
                 IF Len(maxima) < 3 \/ hits = {} THEN NotDetected
                 ELSE Let(Neck2(CHOOSE k \in hits : \A m \in hits : m <= k), LAMBDA n2 :
                      [detected |-> TRUE, signal |-> "SELL",
                       confidence |-> IF 500 * (n2 - 2 * current) >= 85 * n2 THEN 850
                                      ELSE RoundDiv(5000 * (n2 - 2 * current), n2),
                       neckline |-> 50 * n2])))))

\* sorted(levels)
Sorted(levels) ==
    LET Insert(acc, i) ==
            LET k == Cardinality({j \in 1..Len(acc) : acc[j] <= levels[i]})
            IN  SubSeq(acc, 1, k) \o <<levels[i]>> \o SubSeq(acc, k + 1, Len(acc))
    IN  Fold(Insert, <<>>, 1, Len(levels))

\* cluster_levels: runs of the sorted levels in which each level is within 1.5%
\* of the one before it; the largest runs first (ties in sorted order); the
\* means (x100) of the first max_levels runs
cluster_levels(levels, max_levels) ==
    IF levels = <<>> THEN <<>>
    ELSE Let(Sorted(levels), LAMBDA sorted :
         LET Grow(cl, i) ==
                 IF i > 1 /\ 1000 * Abs(sorted[i] - sorted[i - 1]) < 15 * Abs(sorted[i - 1])
                 THEN [cl EXCEPT ![Len(cl)] = [sum |-> @.sum + sorted[i], len |-> @.len + 1]]
                 ELSE Append(cl, [sum |-> sorted[i], len |-> 1])
         IN  Let(Fold(Grow, <<>>, 1, Len(sorted)), LAMBDA clusters :
             LET Rank(j) == Cardinality({i \in 1..Len(clusters) :
                                \/ clusters[i].len > clusters[j].len
                                \/ clusters[i].len = clusters[j].len /\ i < j})
                 top == Min2(max_levels, Len(clusters))
             IN  [r \in 1..top |->
                     LET j == CHOOSE i \in 1..Len(clusters) : Rank(i) = r - 1
                     IN  RoundDiv(100 * clusters[j].sum, clusters[j].len)]))

NoLevels == [support_levels |-> <<>>, resistance_levels |-> <<>>,
             signal |-> "HOLD", confidence |-> 0]

\* the confidence (x10) of a level at distance dist100 (x100) from current100
ProximityConfidence(dist100, current100) ==
    Min2(RoundDiv(600 * (current100 - 50 * dist100), current100), 600)

\* a faulty variant: a nearby support takes precedence over a nearby resistance
detect_support_resistance_buy_first(prices, period, num_levels) ==
    IF Len(prices) < period THEN NoLevels
    ELSE Let(Recent(prices, period), LAMBDA recent :
         LET n       == Len(recent)
             current == recent[n]
             window  == 5
             IsMin(i) == /\ i > window /\ i <= n - window
                         /\ recent[i] = MinSeq(recent, i - window, i + window)
             IsMax(i) == /\ i > window /\ i <= n - window
                         /\ recent[i] = MaxSeq(recent, i - window, i + window)
             Below(i) == recent[i] < current
             Above(i) == recent[i] > current
             Price(idx) == [k \in 1..Len(idx) |-> recent[idx[k]]]
         IN  Let(SelectSeq(Indices(n), IsMin), LAMBDA local_min :
             Let(SelectSeq(Indices(n), IsMax), LAMBDA local_max :
             Let(cluster_levels(Price(SelectSeq(local_min, Below)), num_levels),
                 LAMBDA supports :
             Let(cluster_levels(Price(SelectSeq(local_max, Above)), num_levels),
                 LAMBDA resistances :
             Let(100 * current, LAMBDA c100 :
             Let(IF supports = <<>> THEN NaN ELSE MaxSeq(supports, 1, Len(supports)),
                 LAMBDA nearest_support :
             Let(IF resistances = <<>> THEN NaN ELSE MinSeq(resistances, 1, Len(resistances)),
                 LAMBDA nearest_resistance :
             LET near_support    == supports # <<>> /\ 100 * (c100 - nearest_support) < 2 * c100
                 near_resistance == resistances # <<>>
                                    /\ 100 * (nearest_resistance - c100) < 2 * c100
             IN  IF local_min = <<>> /\ local_max = <<>> THEN NoLevels
                 ELSE [support_levels |-> supports,
                       resistance_levels |-> resistances,
                       signal |-> IF near_support THEN "BUY"
                                  ELSE IF near_resistance THEN "SELL" ELSE "HOLD",
                       confidence |->
                           IF near_support
                           THEN ProximityConfidence(c100 - nearest_support, c100)
                           ELSE IF near_resistance
                           THEN ProximityConfidence(nearest_resistance - c100, c100)
                           ELSE 0]))))))))

detect_support_resistance(prices, period, num_levels) ==
    IF Len(prices) < period THEN NoLevels
    ELSE Let(Recent(prices, period), LAMBDA recent :
         LET n       == Len(recent)
             current == recent[n]
             window  == 5
             IsMin(i) == /\ i > window /\ i <= n - window
                         /\ recent[i] = MinSeq(recent, i - window, i + window)
             IsMax(i) == /\ i > window /\ i <= n - window
                         /\ recent[i] = MaxSeq(recent, i - window, i + window)
             Below(i) == recent[i] < current
             Above(i) == recent[i] > current
             Price(idx) == [k \in 1..Len(idx) |-> recent[idx[k]]]
         IN  Let(SelectSeq(Indices(n), IsMin), LAMBDA local_min :
             Let(SelectSeq(Indices(n), IsMax), LAMBDA local_max :
             Let(cluster_levels(Price(SelectSeq(local_min, Below)), num_levels),
                 LAMBDA supports :
             Let(cluster_levels(Price(SelectSeq(local_max, Above)), num_levels),
                 LAMBDA resistances :
             Let(100 * current, LAMBDA c100 :
             Let(IF supports = <<>> THEN NaN ELSE MaxSeq(supports, 1, Len(supports)),
                 LAMBDA nearest_support :
             Let(IF resistances = <<>> THEN NaN ELSE MinSeq(resistances, 1, Len(resistances)),
                 LAMBDA nearest_resistance :
             LET near_support    == supports # <<>> /\ 100 * (c100 - nearest_support) < 2 * c100
                 near_resistance == resistances # <<>>
                                    /\ 100 * (nearest_resistance - c100) < 2 * c100
             IN  IF local_min = <<>> /\ local_max = <<>> THEN NoLevels
                 ELSE [support_levels |-> supports,
                       resistance_levels |-> resistances,
                       signal |-> IF near_resistance THEN "SELL"
                                  ELSE IF near_support THEN "BUY" ELSE "HOLD",
                       confidence |->
                           IF near_resistance
                           THEN ProximityConfidence(nearest_resistance - c100, c100)
                           ELSE IF near_support
                           THEN ProximityConfidence(c100 - nearest_support, c100)
                           ELSE 0]))))))))

DetectorNames == <<"double_bottom", "double_top", "head_and_shoulders", "support_resistance">>

\* analyze_patterns(prices): the four results and their aggregate; the
\* aggregate score is held x1000
analyze_patterns(prices) ==
    Let(<< detect_double_bottom(prices, 75, 3),
           detect_double_top(prices, 75, 3),
           detect_head_and_shoulders(prices, 100, 3),
           detect_support_resistance(prices, 100, 3) >>, LAMBDA results :
    LET Detected(r) == IF "detected" \in DOMAIN r THEN r.detected ELSE FALSE
        Votes(r) == (Detected(r) \/ r.signal # "HOLD") /\ r.signal \in {"BUY", "SELL"}
        Add(agg, k) ==
            IF ~Votes(results[k]) THEN agg
            ELSE IF results[k].signal = "BUY"
                 THEN [score |-> agg.score + results[k].confidence,
                       reasons |-> Append(agg.reasons,
                           Reason(DetectorNames[k] \o ": BUY", results[k].confidence))]
                 ELSE [score |-> agg.score - results[k].confidence,
                       reasons |-> Append(agg.reasons,
                           Reason(DetectorNames[k] \o ": SELL", results[k].confidence))]
    IN  Let(Fold(Add, [score |-> 0, reasons |-> <<>>], 1, 4), LAMBDA agg :
        [results |-> results,
         aggregate |-> [signal |-> IF agg.score > 100 THEN "BUY"
                                   ELSE IF agg.score < -100 THEN "SELL" ELSE "HOLD",
                        score |-> agg.score,
                        reasons |-> agg.reasons]]))

(***************************************************************************)
(* Predictor (src/analysis/predictor.py): the technical block.  A raw      *)
(* score is held doubled (x2: the rules add multiples of 0.5); a           *)
(* normalized score is held in units of 1/91000, the least unit in which   *)
(* k/14 (technical), k/1000 (pattern) and k/13 (momentum) are whole.       *)
(***************************************************************************)
One == 91000

\* a faulty variant: no clamp
Clamp_none(x) == x

Clamp(x) == Max2(Min2(x, One), -One)

\* a faulty variant: the normalizer is 2.0
TechNormalize_by_two(score_x2) == Clamp((score_x2 * One) \div 4)

\* score / max_score clamped to [-1, 1]; score_x2 is the doubled raw score
TechNormalize(score_x2) == Clamp((score_x2 * One) \div 14)

_calc_technical_score(close, data) ==
    Let(Len(close), LAMBDA n :
    Let(calc_rsi(close, 14, n), LAMBDA rsi_val :
    Let(calc_macd(close, 12, 26, 9, n), LAMBDA m1 :
    Let(calc_macd(close, 12, 26, 9, n - 1), LAMBDA m2 :
    Let(calc_bollinger(close, 20, 2, n), LAMBDA bb :
    Let(calc_moving_averages(close, DefaultPeriods, n), LAMBDA mas :
    LET rsi_out == IF IsNaN(rsi_val) THEN NaN ELSE RoundDiv(rsi_val, 100)
        rsi == IF lt(rsi_val, 30000) THEN [s |-> 4, r |-> <<Reason("RSI oversold", rsi_out)>>]
               ELSE IF lt(rsi_val, 40000) THEN [s |-> 2, r |-> <<Reason("RSI low", rsi_out)>>]
               ELSE IF gt(rsi_val, 70000) THEN [s |-> -4, r |-> <<Reason("RSI overbought", rsi_out)>>]
               ELSE IF gt(rsi_val, 60000) THEN [s |-> -2, r |-> <<Reason("RSI high", rsi_out)>>]
               ELSE [s |-> 0, r |-> <<Reason("RSI neutral", rsi_out)>>]
        macd == IF m1.macd_line > m1.signal_line
                THEN IF m1.histogram > m2.histogram
                     THEN [s |-> 4, r |-> <<Plain("MACD bullish & strengthening")>>]
                     ELSE [s |-> 2, r |-> <<Plain("MACD bullish")>>]
                ELSE IF m1.histogram < m2.histogram
                     THEN [s |-> -4, r |-> <<Plain("MACD bearish & weakening")>>]
                     ELSE [s |-> -2, r |-> <<Plain("MACD bearish")>>]
        last_price == close[n] * 1000
        bb_range == IF IsNaN(bb.upper) THEN NaN ELSE bb.upper - bb.lower
        \* bb_pos x100; 0.5 when the band has no width (or is NaN)
        bb_pos == IF gt(bb_range, 0) THEN RoundDiv(100 * (last_price - bb.lower), bb_range)
                  ELSE 50
        bb_low == IF gt(bb_range, 0) THEN 5 * (last_price - bb.lower) < bb_range ELSE FALSE
        bb_high == IF gt(bb_range, 0) THEN 5 * (last_price - bb.lower) > 4 * bb_range ELSE FALSE
        boll == IF bb_low THEN [s |-> 3, r |-> <<Reason("Near lower Bollinger", bb_pos)>>]
                ELSE IF bb_high THEN [s |-> -3, r |-> <<Reason("Near upper Bollinger", bb_pos)>>]
                ELSE [s |-> 0, r |-> <<>>]
        ma == IF 5 \in DOMAIN mas /\ 25 \in DOMAIN mas
              THEN IF gt(mas[5], mas[25])
                   THEN [s |-> 2, r |-> <<Plain("MA5 > MA25 (bullish)")>>]
                   ELSE [s |-> -2, r |-> <<Plain("MA5 < MA25 (bearish)")>>]
              ELSE [s |-> 0, r |-> <<>>]
        \* 5-day momentum in percent, x10 for the text; the thresholds are exact
        mom5 == IF n >= 6 THEN RoundDiv(1000 * (close[n] - close[n - 5]), close[n - 5]) ELSE 0
        mom == IF n >= 6 /\ 100 * (close[n] - close[n - 5]) > 3 * close[n - 5]
               THEN [s |-> -1, r |-> <<Reason("5d momentum + (pullback risk)", mom5)>>]
               ELSE IF n >= 6 /\ 100 * (close[n] - close[n - 5]) < -3 * close[n - 5]
               THEN [s |-> 1, r |-> <<Reason("5d momentum (bounce potential)", mom5)>>]
               ELSE [s |-> 0, r |-> <<>>]
    IN  Let(rsi.s + macd.s + boll.s + ma.s + mom.s, LAMBDA score :
        [raw |-> score,
         score |-> TechNormalize(score),
         reasons |-> rsi.r \o macd.r \o boll.r \o ma.r \o mom.r])))))))

\* a faulty variant: the aggregate is passed on as it is
PatternNormalize_unclamped(score_x1000) == score_x1000 * (One \div 1000)

\* max(min(raw_score, 1.0), -1.0); the aggregate arrives in thousandths
PatternNormalize(score_x1000) == Clamp(score_x1000 * (One \div 1000))

_calc_pattern_score(close) ==
    Let(analyze_patterns(close).aggregate, LAMBDA agg :
        [raw |-> agg.score,
         score |-> PatternNormalize(agg.score),
         reasons |-> agg.reasons])

\* raw_score / 6.5 clamped to [-1, 1]; the aggregate arrives doubled
MomentumNormalize(score_x2) == Clamp((score_x2 * One) \div 13)

_calc_momentum_score(data) ==
    Let(generate_advanced_signals(data), LAMBDA agg :
        [raw |-> agg.score,
         score |-> MomentumNormalize(agg.score),
         reasons |-> agg.reasons])

(***************************************************************************)
(* Predictor: the combination stage of blind_predict (lines 195-231).      *)
(* Weights are percentages.  The composite is held exactly, in units of    *)
(* 1/(100 * One); figures the record reports are rounded as the code       *)
(* rounds them: composite_score and the component scores x10000 (four      *)
(* decimals), confidence x10 (one decimal).                                *)
(***************************************************************************)
WEIGHT_TECHNICAL == 40
WEIGHT_PATTERN == 30
WEIGHT_MOMENTUM == 30

CompositeOne == 100 * One

\* a faulty variant: the technical and pattern weights change places
Composite_swapped(tech_score, pattern_score, momentum_score) ==
    WEIGHT_PATTERN * tech_score + WEIGHT_TECHNICAL * pattern_score
        + WEIGHT_MOMENTUM * momentum_score

\* WEIGHT_TECHNICAL * tech_score + WEIGHT_PATTERN * pattern_score + ...
Composite(tech_score, pattern_score, momentum_score) ==
    WEIGHT_TECHNICAL * tech_score + WEIGHT_PATTERN * pattern_score
        + WEIGHT_MOMENTUM * momentum_score

\* a faulty variant: a score of zero counts as a positive sign
Agreement_zero_counts(tech_score, pattern_score, momentum_score) ==
    LET Pos(x) == IF x >= 0 THEN 1 ELSE -1
    IN  Abs(Pos(tech_score) + Pos(pattern_score) + Pos(momentum_score))

\* abs(sum(signs)), the numerator of agreement = abs(sum(signs)) / 3.0
Agreement(tech_score, pattern_score, momentum_score) ==
    Abs(Sign(tech_score) + Sign(pattern_score) + Sign(momentum_score))

\* a faulty variant: disagreement raises the confidence
Confidence_disagreement(composite, agreement) ==
    Min2(Abs(composite) * (6 - agreement), 95 * 6 * (CompositeOne \div 100))

\* min(abs(composite) * 100 * (0.5 + 0.5 * agreement), 95), the numerator of a
\* fraction over 6 * CompositeOne / 100
Confidence(composite, agreement) ==
    Min2(Abs(composite) * (3 + agreement), 95 * 6 * (CompositeOne \div 100))

\* a faulty variant: the thresholds themselves count as UP and DOWN
Direction_inclusive(composite) ==
    IF 20 * composite >= CompositeOne THEN "UP"
    ELSE IF 20 * composite <= -CompositeOne THEN "DOWN"
    ELSE "FLAT"

Direction(composite) ==
    IF 20 * composite > CompositeOne THEN "UP"
    ELSE IF 20 * composite < -CompositeOne THEN "DOWN"
    ELSE "FLAT"

\* round(x, 4) of a normalized score, x10000
Round4(score) == RoundDiv(score * 10, One \div 1000)

\* The record of a successful prediction (lines 195-236), from the three
\* blocks' (score, reasons) and the last Close.
Combine(ticker, as_of_date, tech, pattern, momentum, price) ==
    Let(Composite(tech.score, pattern.score, momentum.score), LAMBDA composite :
    Let(Agreement(tech.score, pattern.score, momentum.score), LAMBDA agreement :
    Let(Confidence(composite, agreement), LAMBDA confidence :
        [ticker          |-> ticker,
         as_of_date      |-> as_of_date,
         direction       |-> Direction(composite),
         confidence      |-> RoundDiv(confidence, 6 * (CompositeOne \div 1000)),
         composite_score |-> RoundDiv(composite, CompositeOne \div 10000),
         components      |->
             [technical |-> [score |-> Round4(tech.score), weight |-> WEIGHT_TECHNICAL],
              pattern   |-> [score |-> Round4(pattern.score), weight |-> WEIGHT_PATTERN],
              momentum  |-> [score |-> Round4(momentum.score), weight |-> WEIGHT_MOMENTUM]],
         indicators      |-> [price |-> 100 * price],
         reasoning       |-> tech.reasons \o pattern.reasons \o momentum.reasons])))

(***************************************************************************)
(* blind_predict (lines 157-239).  An as_of_date argument is None, a       *)
(* string that parses as a date (given by its day number) or a string      *)
(* that does not.  The outcome is the returned record, or the exception    *)
(* that leaves the function.                                               *)
(***************************************************************************)
None == [kind |-> "None", day |-> 0]
DateStr(d) == [kind |-> "date", day |-> d]
NotADate == [kind |-> "text", day |-> 0]

Raise(exception) == [raised |-> exception]
Raised(outcome) == "raised" \in DOMAIN outcome

\* the record of the early returns and of the except branch
Degraded(ticker, as_of_date, error) ==
    [ticker |-> ticker, as_of_date |-> as_of_date, direction |-> "FLAT",
     confidence |-> 0, error |-> error]

\* the first column the scoring reads that the frame lacks: data["Close"]
\* (line 186), then df["High"], df["Low"] in generate_advanced_signals
MissingColumn(data) ==
    IF "Close" \notin data.columns THEN "Close"
    ELSE IF "High" \notin data.columns THEN "High"
    ELSE IF "Low" \notin data.columns THEN "Low"
    ELSE ""

\* a faulty variant: the fetched frame is used as it arrived
Truncate_keep_all(data, cutoff) == data

\* data[data.index <= cutoff]
Truncate(data, cutoff) ==
    [columns |-> data.columns, rows |-> SelectBars(data.rows, data.rows[1].date, cutoff)]

\* a faulty variant: the cutoff is always today
Cutoff_today(as_of_date, now) == DateStr(now)

\* as_of_date, or today's date when it is None (lines 170-171)
Cutoff(as_of_date, now) == IF as_of_date.kind = "None" THEN DateStr(now) ELSE as_of_date

\* a faulty variant: exactly 30 bars are refused too
Insufficient_off_by_one(data) == Len(data.rows) <= 30

\* len(data) < 30
Insufficient(data) == Len(data.rows) < 30

\* source: what yf.download answers for the ticker, [fault, rows, cols, endIncl];
\* now: the day datetime.now() reads
blind_predict(source, now, ticker, as_of_date) ==
    IF as_of_date.kind = "text" THEN Raise("ValueError")
    ELSE
    Let(Cutoff(as_of_date, now), LAMBDA asof :
    LET cutoff == asof.day
        start  == cutoff - 250
        end    == cutoff + 1
    IN  IF source.fault # "" THEN Degraded(ticker, asof, source.fault)
        ELSE
        Let(Download(source.rows, source.cols, start, end, source.endIncl), LAMBDA fetched :
            IF fetched.rows = <<>> THEN Degraded(ticker, asof, "No data")
            ELSE
            Let(Truncate(fetched, cutoff), LAMBDA data :
                IF Insufficient(data) THEN Degraded(ticker, asof, "Insufficient data")
                ELSE IF MissingColumn(data) # ""
                THEN Degraded(ticker, asof, "'" \o MissingColumn(data) \o "'")
                ELSE
                Let(Column(data, "Close"), LAMBDA close :
                    Combine(ticker, asof,
                            _calc_technical_score(close, data),
                            _calc_pattern_score(close),
                            _calc_momentum_score(data),
                            close[Len(close)])))))

(***************************************************************************)
(* evaluate_prediction (lines 242-281) and the loop of backtest (284-312). *)
(* actual answers the second download as source answers the first.  A      *)
(* return in percent is held x100 (the code rounds it to two decimals).    *)
(***************************************************************************)
\* pred.get(key, 0)
Get(pred, key) == IF key \in DOMAIN pred THEN pred[key] ELSE 0

\* a faulty variant: the thresholds themselves count as UP and DOWN
ActualDirection_inclusive(start_price, end_price) ==
    IF 1000 * (end_price - start_price) >= 5 * start_price THEN "UP"
    ELSE IF 1000 * (end_price - start_price) <= -5 * start_price THEN "DOWN"
    ELSE "FLAT"

\* actual_return = (end_price / start_price - 1) * 100 against 0.5 and -0.5
ActualDirection(start_price, end_price) ==
    IF 1000 * (end_price - start_price) > 5 * start_price THEN "UP"
    ELSE IF 1000 * (end_price - start_price) < -5 * start_price THEN "DOWN"
    ELSE "FLAT"

\* a faulty variant: only an empty frame is refused
ActualInsufficient_empty_only(data) == Len(data.rows) < 1

\* data.empty or len(data) < 2
ActualInsufficient(data) == Len(data.rows) < 2

evaluate_prediction(source, actual, now, ticker, prediction_date, actual_date) ==
    Let(blind_predict(source, now, ticker, prediction_date), LAMBDA pred :
        IF Raised(pred) THEN pred
        ELSE IF actual_date.kind # "date" THEN Raise("ValueError")
        ELSE IF actual.fault # "" THEN [error |-> actual.fault, prediction |-> pred]
        ELSE
        Let(Download(actual.rows, actual.cols, prediction_date.day,
                     actual_date.day + 1, actual.endIncl), LAMBDA data :
            IF ActualInsufficient(data)
            THEN [error |-> "Insufficient actual data", prediction |-> pred]
            ELSE IF "Close" \notin data.columns
            THEN [error |-> "'Close'", prediction |-> pred]
            ELSE
            Let(Column(data, "Close"), LAMBDA close :
            LET start_price == close[1]
                end_price   == close[Len(close)]
                actual_dir  == ActualDirection(start_price, end_price)
            IN  [ticker            |-> ticker,
                 prediction_date   |-> prediction_date,
                 actual_date       |-> actual_date,
                 predicted         |-> pred.direction,
                 actual            |-> actual_dir,
                 actual_return_pct |-> RoundDiv(10000 * (end_price - start_price),
                                                start_price),
                 hit               |-> pred.direction = actual_dir,
                 confidence        |-> Get(pred, "confidence"),
                 composite_score   |-> Get(pred, "composite_score")])))

\* while current + timedelta(days=7) <= end
Continue(current, end) == current + 7 <= end

\* a faulty variant: the walk moves by one day
NextCutoff_daily(current) == current + 1

\* current += timedelta(days=7)
NextCutoff(current) == current + 7

\* the row backtest appends for a result without "error"
BacktestRow(pred_date, result) ==
    [date |-> pred_date, predicted |-> result.predicted, actual |-> result.actual,
     actual_return_pct |-> result.actual_return_pct, hit |-> result.hit,
     confidence |-> result.confidence, composite_score |-> result.composite_score]

\* a faulty variant: the share of hits is not scaled to a percentage
Accuracy_fraction(results) ==
    LET Hit(r) == r.hit
    IN  RoundDiv(10 * Len(SelectSeq(results, Hit)), Len(results))

\* df["hit"].mean() * 100, x10 (the log line prints one decimal)
Accuracy(results) ==
    LET Hit(r) == r.hit
    IN  RoundDiv(1000 * Len(SelectSeq(results, Hit)), Len(results))

(***************************************************************************)
(* Paper trading engine (src/paper_trade/engine.py).  Prices are whole      *)
(* dollars, so cash, cost and proceeds are whole dollars too; the average  *)
(* cost of a position and the realized pnl are held in cents.              *)
(***************************************************************************)
\* initial_cash = 100_000.0
InitialCash == 100000

\* price=None: the caller gives no price and the market price is fetched
NoPrice == -1

NoPositions == [t \in {} |-> [shares |-> 0, avg_cost |-> 0]]

PaperTrader(initial_cash) ==
    [cash |-> initial_cash, positions |-> NoPositions, transactions |-> <<>>]

\* what a call leaves behind: the trader and the value returned
Outcome(self, returned) == [self |-> self, returned |-> returned]

\* a faulty variant: the cost is not compared with the cash
buy_unchecked(self, ticker, shares, price, quote, timestamp) ==
    Let(IF price = NoPrice THEN quote ELSE price, LAMBDA paid :
        IF paid = NoPrice THEN Outcome(self, [error |-> "Cannot get price"])
        ELSE
        LET cost == paid * shares
            held == ticker \in DOMAIN self.positions
            pos  == IF held
                    THEN LET old == self.positions[ticker]
                             total_shares == old.shares + shares
                         IN  [shares |-> total_shares,
                              avg_cost |-> RoundDiv(old.avg_cost * old.shares + 100 * cost,
                                                    total_shares)]
                    ELSE [shares |-> shares, avg_cost |-> 100 * paid]
            txn  == [type |-> "BUY", ticker |-> ticker, shares |-> shares,
                     price |-> paid, cost |-> cost, timestamp |-> timestamp]
        IN  Outcome([cash |-> self.cash - cost,
                     positions |-> [t \in DOMAIN self.positions \cup {ticker} |->
                                       IF t = ticker THEN pos ELSE self.positions[t]],
                     transactions |-> Append(self.transactions, txn)],
                    txn))

\* PaperTrader.buy; quote is what _get_price would return (NoPrice for None)
buy(self, ticker, shares, price, quote, timestamp) ==
    Let(IF price = NoPrice THEN quote ELSE price, LAMBDA paid :
        IF paid = NoPrice THEN Outcome(self, [error |-> "Cannot get price"])
        ELSE
        LET cost == paid * shares
            held == ticker \in DOMAIN self.positions
            pos  == IF held
                    THEN LET old == self.positions[ticker]
                             total_shares == old.shares + shares
                         IN  [shares |-> total_shares,
                              avg_cost |-> RoundDiv(old.avg_cost * old.shares + 100 * cost,
                                                    total_shares)]
                    ELSE [shares |-> shares, avg_cost |-> 100 * paid]
            txn  == [type |-> "BUY", ticker |-> ticker, shares |-> shares,
                     price |-> paid, cost |-> cost, timestamp |-> timestamp]
        IN  IF cost > self.cash THEN Outcome(self, [error |-> "Insufficient cash"])
            ELSE Outcome([cash |-> self.cash - cost,
                          positions |-> [t \in DOMAIN self.positions \cup {ticker} |->
                                            IF t = ticker THEN pos ELSE self.positions[t]],
                          transactions |-> Append(self.transactions, txn)],
                         txn))

\* PaperTrader.sell; the shares held are checked before the price is fetched
sell(self, ticker, shares, price, quote, timestamp) ==
    IF ticker \notin DOMAIN self.positions
    THEN Outcome(self, [error |-> "Insufficient shares"])
    ELSE IF self.positions[ticker].shares < shares
    THEN Outcome(self, [error |-> "Insufficient shares"])
    ELSE
    Let(IF price = NoPrice THEN quote ELSE price, LAMBDA paid :
        IF paid = NoPrice THEN Outcome(self, [error |-> "Cannot get price"])
        ELSE
        LET proceeds == paid * shares
            pos  == self.positions[ticker]
            pnl  == (100 * paid - pos.avg_cost) * shares
            left == pos.shares - shares
            txn  == [type |-> "SELL", ticker |-> ticker, shares |-> shares,
                     price |-> paid, proceeds |-> proceeds, pnl |-> pnl,
                     timestamp |-> timestamp]
        IN  Outcome([cash |-> self.cash + proceeds,
                     positions |-> IF left = 0
                                   THEN [t \in DOMAIN self.positions \ {ticker} |->
                                            self.positions[t]]
                                   ELSE [self.positions EXCEPT ![ticker].shares = left],
                     transactions |-> Append(self.transactions, txn)],
                    txn))

(***************************************************************************)
(* The program as a state machine.  A session either asks for predictions  *)
(* (blind_predict, up to MaxCalls times, the clock moving between calls)   *)
(* or runs one backtest.  The data source's content is fixed when the      *)
(* session starts; beside it stands its variant, equal on every bar dated  *)
(* up to source.agree and shifted by source.tail on every later bar, which *)
(* is asked the same questions.                                            *)
(***************************************************************************)
VARIABLES
    source,     \* the data source: [shape, agree, tail, endIncl, cols]
    now,        \* the day datetime.now() reads
    calls,      \* the calls of blind_predict so far, each with its outcome
    bt,         \* the backtest: [pc, ticker, start, end, current, results, accuracy]
    cutoffs,    \* the cutoffs backtest has evaluated, in order
    cal,        \* combination stage alone: the block scores tried, with the record
    paper       \* the paper trader: [trader, calls, call, returned]

vars == <<source, now, calls, bt, cutoffs, cal, paper>>

AllColumns == {"Open", "High", "Low", "Close", "Volume"}

AgreeDay == 141
TailShift == 7
MaxCalls == 2
FirstNow == 165
MaxTicks == 1
MaxFaults == 1

Scenario(shape, endIncl, cols) ==
    [shape |-> shape, agree |-> AgreeDay, tail |-> TailShift, endIncl |-> endIncl,
     cols |-> cols]

Scenarios ==
    { Scenario(1, FALSE, AllColumns),
      Scenario(2, TRUE, AllColumns),
      Scenario(2, FALSE, AllColumns \ {"Volume"}),
      Scenario(3, FALSE, AllColumns \ {"High"}),
      Scenario(4, TRUE, AllColumns),
      Scenario(5, FALSE, AllColumns),
      Scenario(6, TRUE, AllColumns),
      Scenario(7, FALSE, AllColumns),
      Scenario(8, TRUE, AllColumns) }

Tickers == {"NVDA"}

\* before the first bar; 29 bars; 30 bars; 101 bars, the last day the variant
\* agrees on; more than 250 days after the last bar
AsOfDays == {0, 39, 40, 141, 420}
AsOfDates == {DateStr(d) : d \in AsOfDays} \cup {None, NotADate}

NoFault == ""
Faults == {NoFault, "Connection error"}

\* what yf.download answers from: the source's bars, or its variant's
Response(scn, tail, fault) ==
    [fault |-> fault, rows |-> Bars(scn, tail), cols |-> scn.cols, endIncl |-> scn.endIncl]

Idle == [pc |-> "idle", ticker |-> "", start |-> 0, end |-> 0, current |-> 0,
         results |-> <<>>, accuracy |-> NaN, faults |-> 0]

Init ==
    /\ source \in Scenarios
    /\ now = FirstNow
    /\ calls = <<>>
    /\ bt = Idle
    /\ cutoffs = <<>>
    /\ cal = <<>>
    /\ paper = [trader |-> PaperTrader(InitialCash), calls |-> 0,
                call |-> [op |-> "__init__"], returned |-> [error |-> ""]]

\* one call blind_predict(ticker, as_of_date), the download failing or not
Predict(ticker, as_of_date, fault) ==
    /\ bt.pc = "idle"
    /\ Len(calls) < MaxCalls
    /\ fault # NoFault => as_of_date = DateStr(141)
    /\ calls' = Append(calls,
           [ticker |-> ticker, as_of_date |-> as_of_date, fault |-> fault, now |-> now,
            outcome |-> blind_predict(Response(source, 0, fault), now, ticker, as_of_date),
            variant |-> blind_predict(Response(source, source.tail, fault), now, ticker,
                                      as_of_date)])
    /\ UNCHANGED <<source, now, bt, cutoffs, cal, paper>>

\* a day passes
Tick ==
    /\ bt.pc = "idle"
    /\ now < FirstNow + MaxTicks
    /\ now' = now + 1
    /\ UNCHANGED <<source, calls, bt, cutoffs, cal, paper>>

\* two weeks before the first bar; a Friday with 25 bars of history; a Friday
\* and the Saturday after it, both with history enough; the last Friday but one
BacktestStarts == {-13, 33, 103, 104, 159}
BacktestSpans == {6, 7, 21}

\* backtest(ticker, start_date, end_date) up to the loop
BacktestStart(ticker, start_date, end_date) ==
    /\ bt.pc = "idle"
    /\ calls = <<>>
    /\ bt' = [Idle EXCEPT !.pc = "loop", !.ticker = ticker, !.start = start_date,
                          !.end = end_date, !.current = start_date]
    /\ cutoffs' = <<>>
    /\ UNCHANGED <<source, now, calls, cal, paper>>

\* one turn of the loop: evaluate_prediction for the cutoff, the row kept
\* unless the result carries "error", the cutoff moved on
BacktestStep(fault, actual_fault) ==
    /\ bt.pc = "loop"
    /\ Continue(bt.current, bt.end)
    /\ (fault # NoFault \/ actual_fault # NoFault) =>
           bt.faults < MaxFaults /\ (fault = NoFault \/ actual_fault = NoFault)
    /\ bt' = Let(evaluate_prediction(Response(source, 0, fault),
                                      Response(source, 0, actual_fault), now, bt.ticker,
                                      DateStr(bt.current), DateStr(bt.current + 7)),
                  LAMBDA result :
                  [bt EXCEPT
                    !.results = IF "error" \in DOMAIN result THEN @
                                ELSE Append(@, BacktestRow(DateStr(bt.current), result)),
                    !.current = NextCutoff(@),
                    !.faults = IF fault # NoFault \/ actual_fault # NoFault
                               THEN @ + 1 ELSE @])
    /\ cutoffs' = Append(cutoffs, bt.current)
    /\ UNCHANGED <<source, now, calls, cal, paper>>

\* the loop ends: the frame of the rows, and the accuracy when there are any
BacktestFinish ==
    /\ bt.pc = "loop"
    /\ ~Continue(bt.current, bt.end)
    /\ bt' = [bt EXCEPT !.pc = "done",
                        !.accuracy = IF bt.results = <<>> THEN NaN
                                     ELSE Accuracy(bt.results)]
    /\ UNCHANGED <<source, now, calls, cutoffs, cal, paper>>

Next ==
    \/ \E t \in Tickers, d \in AsOfDates, f \in Faults : Predict(t, d, f)
    \/ Tick
    \/ \E t \in Tickers, s \in BacktestStarts, n \in BacktestSpans :
           BacktestStart(t, s, s + n)
    \/ \E f \in Faults, g \in Faults : BacktestStep(f, g)
    \/ BacktestFinish

Spec == Init /\ [][Next]_vars

(***************************************************************************)
(* The combination stage on its own: raw block scores drawn from small     *)
(* sets (technical and momentum doubled, pattern in thousandths), put      *)
(* through the three normalizers and Combine as blind_predict does.        *)
(***************************************************************************)
MaxCal == 2

TechRaws == {-7, 0, 1, 4, 7, 14}
PatternRaws == {-500, -64, -50, 0, 5, 500, 1600}
MomentumRaws == {-2, 0, 1, 3, 13}

Block(score) == [score |-> score, reasons |-> <<>>]

Calibrate(t, p, m) ==
    /\ Len(cal) < MaxCal
    /\ cal' = Append(cal,
           [technical |-> t, pattern |-> p, momentum |-> m,
            record |-> Combine("NVDA", DateStr(now), Block(TechNormalize(t)),
                               Block(PatternNormalize(p)), Block(MomentumNormalize(m)),
                               BasePrice)])
    /\ UNCHANGED <<source, now, calls, bt, cutoffs, paper>>

InitCalib == Init /\ source.shape = 1

NextCalib == \E t \in TechRaws, p \in PatternRaws, m \in MomentumRaws : Calibrate(t, p, m)

SpecCalib == InitCalib /\ [][NextCalib]_vars

(***************************************************************************)
(* The resolution stage of evaluate_prediction on its own: the prediction  *)
(* is made on the session's source, the realized outcome is read from a    *)
(* frame of two bars, dated at the prediction date and seven days later,   *)
(* whose Closes are drawn from small sets.                                 *)
(***************************************************************************)
StartPrices == {200, 993, 1000, 1003}
EndPrices == {198, 199, 200, 201, 202, 994, 995, 996, 998, 1000, 1004, 1005, 1006, 1008,
              1009}

PriceBar(day, price) ==
    [date |-> day, Open |-> price, High |-> price, Low |-> price, Close |-> price,
     Volume |-> 100]

TwoBars(day, start_price, end_price) ==
    [fault |-> NoFault,
     rows |-> <<PriceBar(day, start_price), PriceBar(day + 7, end_price)>>,
     cols |-> AllColumns, endIncl |-> FALSE]

Resolve(start_price, end_price) ==
    /\ Len(cal) < MaxCal
    /\ cal' = Append(cal,
           [start_price |-> start_price, end_price |-> end_price,
            result |-> evaluate_prediction(Response(source, 0, NoFault),
                                           TwoBars(source.agree, start_price, end_price),
                                           now, "NVDA", DateStr(source.agree),
                                           DateStr(source.agree + 7))])
    /\ UNCHANGED <<source, now, calls, bt, cutoffs, paper>>

NextResolve == \E s \in StartPrices, e \in EndPrices : Resolve(s, e)

SpecResolve == InitCalib /\ [][NextResolve]_vars

(***************************************************************************)
(* The signal generators on their own: generate_signals,                   *)
(* _calc_technical_score, generate_advanced_signals and                    *)
(* _calc_momentum_score applied to the                                     *)
(* first n bars of a price shape, for frames shorter and longer than the   *)
(* indicators' warm-up periods.  A frame has at least two bars: the rules  *)
(* read the last bar and the one before it.                                *)
(***************************************************************************)
FrameLengths == {2, 4, 14, 15, 16, 24, 25, 40, 55, 90, 120}

Frame(shape, n) ==
    [columns |-> AllColumns,
     rows |-> SubSeq(Bars(Scenario(shape, FALSE, AllColumns), 0), 1, n)]

Signals(shape, n) ==
    /\ Len(cal) < MaxCal
    /\ cal' = Let(Frame(shape, n), LAMBDA df :
                  Append(cal,
                      [shape |-> shape, n |-> n,
                       signals |-> generate_signals(df),
                       technical |-> _calc_technical_score(Column(df, "Close"), df),
                       advanced |-> generate_advanced_signals(df),
                       momentum |-> _calc_momentum_score(df)]))
    /\ UNCHANGED <<source, now, calls, bt, cutoffs, paper>>

NextSignals == \E shape \in 1..NShapes, n \in FrameLengths : Signals(shape, n)

SpecSignals == InitCalib /\ [][NextSignals]_vars

(***************************************************************************)
(* calc_rsi on its own: the whole RSI series of the first n Closes of a    *)
(* price shape, with the default period.                                   *)
(***************************************************************************)
RsiPeriod == 14
SeriesLengths == {1, 13, 14, 15, 30, 120}

RsiSeries(shape, n) ==
    /\ Len(cal) < MaxCal
    /\ cal' = Let(SubSeq(ShapeCloses(shape), 1, n), LAMBDA series :
                  Append(cal, [shape |-> shape, n |-> n,
                               rsi |-> [i \in 1..n |-> calc_rsi(series, RsiPeriod, i)]]))
    /\ UNCHANGED <<source, now, calls, bt, cutoffs, paper>>

NextRsi == \E shape \in 1..NShapes, n \in SeriesLengths : RsiSeries(shape, n)

SpecRsi == InitCalib /\ [][NextRsi]_vars

(***************************************************************************)
(* calc_parabolic_sar on its own: the arrays trend, sar, ep, af and        *)
(* real_sar at every bar from the second on, for the first n bars of a     *)
(* price shape.  Bars are counted from 1 here and from 0 in the code.      *)
(***************************************************************************)
PsarLengths == {3, 4, 20, 45, 90, 120}

Psar(shape, n) ==
    /\ Len(cal) < MaxCal
    /\ cal' = Let(Frame(shape, n), LAMBDA df :
              Let(Column(df, "High"), LAMBDA high :
              Let(Column(df, "Low"), LAMBDA low :
              Let(Column(df, "Close"), LAMBDA close :
                  Append(cal, [shape |-> shape, n |-> n, high |-> high, low |-> low,
                               psar |-> [i \in 2..n |->
                                   PsarState(high, low, close, InitialAf, StepAf, EndAf,
                                             i)]])))))
    /\ UNCHANGED <<source, now, calls, bt, cutoffs, paper>>

NextPsar == \E shape \in 1..NShapes, n \in PsarLengths : Psar(shape, n)

SpecPsar == InitCalib /\ [][NextPsar]_vars

(***************************************************************************)
(* The pattern detectors on their own: analyze_patterns and                *)
(* _calc_pattern_score on the first n Closes of a price shape.             *)
(***************************************************************************)
PatternLengths == {74, 75, 90, 99, 100, 101, 106, 110, 120}

Patterns(shape, n) ==
    /\ Len(cal) < MaxCal
    /\ cal' = Let(SubSeq(ShapeCloses(shape), 1, n), LAMBDA prices :
                  Append(cal, [shape |-> shape, n |-> n, prices |-> prices,
                               patterns |-> analyze_patterns(prices),
                               score |-> _calc_pattern_score(prices)]))
    /\ UNCHANGED <<source, now, calls, bt, cutoffs, paper>>

NextPatterns == \E shape \in 1..NShapes, n \in PatternLengths : Patterns(shape, n)

SpecPatterns == InitCalib /\ [][NextPatterns]_vars

(***************************************************************************)
(* The paper trader on its own: up to MaxTrades calls of buy and sell, in  *)
(* any order, with an explicit price or with none (the market price is     *)
(* then whatever _get_price returns, a price or None).                     *)
(***************************************************************************)
MaxTrades == 4
TradeTickers == {"NVDA", "7203.T"}
ShareCounts == {1, 2, 30}
Prices == {0, 250, 60000}

Buy(ticker, shares, price, quote) ==
    /\ paper.calls < MaxTrades
    /\ paper' = Let(buy(paper.trader, ticker, shares, price, quote, now), LAMBDA out :
                    [trader |-> out.self, calls |-> paper.calls + 1,
                     call |-> [op |-> "buy", ticker |-> ticker, shares |-> shares,
                               price |-> IF price = NoPrice THEN quote ELSE price],
                     returned |-> out.returned])
    /\ UNCHANGED <<source, now, calls, bt, cutoffs, cal>>

Sell(ticker, shares, price, quote) ==
    /\ paper.calls < MaxTrades
    /\ paper' = Let(sell(paper.trader, ticker, shares, price, quote, now), LAMBDA out :
                    [trader |-> out.self, calls |-> paper.calls + 1,
                     call |-> [op |-> "sell", ticker |-> ticker, shares |-> shares,
                               price |-> IF price = NoPrice THEN quote ELSE price],
                     returned |-> out.returned])
    /\ UNCHANGED <<source, now, calls, bt, cutoffs, cal>>

\* the price given and, when none is given, the market's answer
PriceArgs ==
    {<<price, NoPrice>> : price \in Prices} \cup {<<NoPrice, quote>> : quote \in Prices \cup {NoPrice}}

NextTrade ==
    \/ \E ticker \in TradeTickers, shares \in ShareCounts, pq \in PriceArgs :
           Buy(ticker, shares, pq[1], pq[2])
    \/ \E ticker \in TradeTickers, shares \in ShareCounts, pq \in PriceArgs :
           Sell(ticker, shares, pq[1], pq[2])

SpecTrade == InitCalib /\ [][NextTrade]_vars

(***************************************************************************)
(* Properties.                                                             *)
(***************************************************************************)
Scored(outcome) == ~Raised(outcome) /\ "components" \in DOMAIN outcome

\* the bars of the source inside the lookback window of a cutoff day
BarsUpTo(day) == Len(SelectBars(Bars(source, 0), day - 250, day))

\* C1: no lookahead.  A call with an explicit cutoff date D no later than the
\* last day on which the source and its variant agree returns the same record
\* (direction, confidence, composite_score, component scores, reasoning) from
\* both, although they differ on every bar dated after that day.
C1_NoLookahead ==
    \A i \in 1..Len(calls) :
        (calls[i].as_of_date.kind = "date" /\ calls[i].as_of_date.day <= source.agree)
            => calls[i].outcome = calls[i].variant

\* a scored call at the last agreed day on a source that hands back the bar of
\* the day after, and a later call that sees the two sources apart
C1_Witness ==
    /\ source.endIncl /\ source.tail # 0
    /\ \E i \in 1..Len(calls) :
           /\ calls[i].as_of_date = DateStr(source.agree)
           /\ Scored(calls[i].outcome)
           /\ BarsUpTo(source.agree + 1) > BarsUpTo(source.agree)
    /\ \E j \in 1..Len(calls) :
           /\ calls[j].as_of_date = None
           /\ calls[j].outcome # calls[j].variant

\* C2: no failure escapes blind_predict.  Every call returns a record, and a
\* call whose download fails or whose scoring fails returns direction FLAT,
\* confidence 0 and the error text.
C2_NoFailureEscapes ==
    \A i \in 1..Len(calls) :
        /\ ~Raised(calls[i].outcome)
        /\ calls[i].fault # NoFault =>
               /\ calls[i].outcome.direction = "FLAT"
               /\ calls[i].outcome.confidence = 0
               /\ calls[i].outcome.error = calls[i].fault

\* a call whose argument is no date leaves blind_predict by an exception
C2_Escape ==
    \E i \in 1..Len(calls) :
        calls[i].as_of_date = NotADate /\ Raised(calls[i].outcome)

\* C3: with fewer than 30 bars dated up to the cutoff the call returns FLAT,
\* confidence 0, an insufficient-data tag and no scores; with 30 or more it
\* goes on to scoring (which returns scores, or fails on a missing column).
C3_InsufficientData ==
    \A i \in 1..Len(calls) :
        LET c   == calls[i]
            day == Cutoff(c.as_of_date, c.now).day
        IN  (c.as_of_date.kind # "text" /\ c.fault = NoFault) =>
                IF BarsUpTo(day) < 30
                THEN /\ c.outcome.direction = "FLAT"
                     /\ c.outcome.confidence = 0
                     /\ "error" \in DOMAIN c.outcome
                     /\ c.outcome.error \in {"Insufficient data", "No data"}
                     /\ DOMAIN c.outcome \cap {"components", "composite_score", "reasoning"} = {}
                ELSE \/ Scored(c.outcome)
                     \/ /\ "error" \in DOMAIN c.outcome
                        /\ c.outcome.error \in {"'Close'", "'High'", "'Low'"}
                        /\ c.outcome.error \notin {"'" \o col \o "'" : col \in source.cols}

\* one call with 29 bars refused and one with exactly 30 bars scored
C3_Witness ==
    /\ \E i \in 1..Len(calls) :
           /\ calls[i].as_of_date.kind = "date"
           /\ BarsUpTo(calls[i].as_of_date.day) = 29
           /\ calls[i].outcome.error = "Insufficient data"
    /\ \E j \in 1..Len(calls) :
           /\ calls[j].as_of_date.kind = "date"
           /\ BarsUpTo(calls[j].as_of_date.day) = 30
           /\ Scored(calls[j].outcome)

InUnit(x) == -10000 <= x /\ x <= 10000

Bounded(r) ==
    /\ 0 <= r.confidence /\ r.confidence <= 950
    /\ Scored(r) =>
           /\ InUnit(r.components.technical.score)
           /\ InUnit(r.components.pattern.score)
           /\ InUnit(r.components.momentum.score)
           /\ InUnit(r.composite_score)

\* C4: in every returned prediction the three normalized component scores and
\* composite_score lie in [-1, 1] and confidence lies in [0, 95].
C4_Bounded ==
    /\ \A i \in 1..Len(cal) : Bounded(cal[i].record)
    /\ \A i \in 1..Len(calls) :
           ~Raised(calls[i].outcome) => Bounded(calls[i].outcome)

\* a raw pattern score beyond 1 is clamped, and the confidence cap is reached
C4_Witness ==
    \E i \in 1..Len(cal) :
        /\ cal[i].pattern > 1000
        /\ cal[i].record.components.pattern.score = 10000
        /\ cal[i].record.composite_score = 10000
        /\ cal[i].record.confidence = 950

\* the exact composite of the i-th trial from the claim's weights, in units of
\* 1/CompositeOne
WeightedSum(i) ==
    40 * TechNormalize(cal[i].technical) + 30 * PatternNormalize(cal[i].pattern)
        + 30 * MomentumNormalize(cal[i].momentum)

\* C5: the composite is 0.40 x technical + 0.30 x pattern + 0.30 x momentum
\* over the normalized scores (reported rounded to four decimals), the
\* weights sum to 1 and are the weights the components mapping reports.
C5_WeightedComposite ==
    \A i \in 1..Len(cal) :
        LET r == cal[i].record
        IN  /\ r.composite_score = RoundDiv(WeightedSum(i), CompositeOne \div 10000)
            /\ r.components.technical.weight = 40
            /\ r.components.pattern.weight = 30
            /\ r.components.momentum.weight = 30
            /\ r.components.technical.weight + r.components.pattern.weight
                   + r.components.momentum.weight = 100
            /\ Abs(10 * r.composite_score
                   - (4 * r.components.technical.score + 3 * r.components.pattern.score
                      + 3 * r.components.momentum.score)) <= 10

\* three different non-zero block scores of both signs
C5_Witness ==
    \E i \in 1..Len(cal) :
        /\ cal[i].technical = 7 /\ cal[i].pattern = -50 /\ cal[i].momentum = 1
        /\ cal[i].record.composite_score = RoundDiv(40 * 45500 - 30 * 4550 + 30 * 7000, 910)

\* the sum of the signs of the i-th trial's scores, a zero score having sign 0
SignSum(i) ==
    LET Sgn(x) == IF x > 0 THEN 1 ELSE IF x < 0 THEN -1 ELSE 0
    IN  Sgn(TechNormalize(cal[i].technical)) + Sgn(PatternNormalize(cal[i].pattern))
            + Sgn(MomentumNormalize(cal[i].momentum))

\* C6: confidence = min(|composite| x 100 x (0.5 + 0.5 x agreement), 95) with
\* agreement = |sum of signs| / 3, one of 0, 1/3, 2/3, 1 (reported rounded to
\* one decimal).  With agreement = a/3 the product is |composite| x 100 x
\* (3 + a) / 6.
C6_Confidence ==
    \A i \in 1..Len(cal) :
        LET a == Abs(SignSum(i))
        IN  /\ a \in {0, 1, 2, 3}
            /\ cal[i].record.confidence =
                   RoundDiv(Min2(Abs(WeightedSum(i)) * (3 + a), 95 * 6 * (CompositeOne \div 100)),
                            6 * (CompositeOne \div 1000))

\* a zero score beside two scores of the same sign: agreement 2/3, under the cap
C6_Witness ==
    \E i \in 1..Len(cal) :
        /\ cal[i].technical > 0 /\ cal[i].pattern = 0 /\ cal[i].momentum > 0
        /\ Abs(SignSum(i)) = 2
        /\ cal[i].record.confidence > 0 /\ cal[i].record.confidence < 950

Unanimous(i) == Abs(SignSum(i)) = 3

\* C7: agreement monotonicity.  Of two predictions reporting the same
\* |composite|, one with three scores of the same non-zero sign has a
\* confidence no lower than one whose signs are not unanimous.
C7_AgreementMonotone ==
    \A i, j \in 1..Len(cal) :
        (/\ Abs(cal[i].record.composite_score) = Abs(cal[j].record.composite_score)
         /\ Unanimous(i) /\ ~Unanimous(j))
            => cal[i].record.confidence >= cal[j].record.confidence

\* a unanimous and a mixed prediction with the same reported composite, the
\* unanimous one strictly more confident
C7_Witness ==
    \E i, j \in 1..Len(cal) :
        /\ Unanimous(i) /\ ~Unanimous(j)
        /\ cal[j].technical > 0 /\ cal[j].pattern < 0 /\ cal[j].momentum < 0
        /\ cal[i].record.composite_score = cal[j].record.composite_score
        /\ cal[i].record.composite_score # 0
        /\ cal[i].record.confidence > cal[j].record.confidence

C9_Deterministic ==
    \A i, j \in 1..Len(calls) :
        (/\ calls[i].ticker = calls[j].ticker
         /\ calls[i].as_of_date = calls[j].as_of_date
         /\ calls[i].as_of_date.kind = "date"
         /\ calls[i].fault = calls[j].fault)
            => /\ calls[i].outcome = calls[j].outcome
               /\ calls[i].variant = calls[j].variant

\* the same scored question asked on two different days
C9_Witness ==
    \E i, j \in 1..Len(calls) :
        /\ i < j
        /\ calls[i].as_of_date = calls[j].as_of_date
        /\ calls[i].as_of_date.kind = "date"
        /\ calls[i].now < calls[j].now
        /\ Scored(calls[i].outcome)

\* C10: backtest evaluates the cutoffs start, start + 7, start + 14, ... in
\* that order, a cutoff c only if c + 7 <= end, and stops after
\* floor((end - start) / 7) turns (none when end < start + 7).
C10_WeeklyWalk ==
    /\ \A k \in 1..Len(cutoffs) :
           /\ cutoffs[k] = bt.start + 7 * (k - 1)
           /\ cutoffs[k] + 7 <= bt.end
    /\ bt.pc = "loop" => bt.current = bt.start + 7 * Len(cutoffs)
    /\ bt.pc = "done" =>
           Len(cutoffs) = IF bt.end < bt.start + 7 THEN 0 ELSE (bt.end - bt.start) \div 7

\* a finished walk of three turns
C10_Witness ==
    /\ bt.pc = "done"
    /\ Len(cutoffs) = 3
    /\ bt.end = bt.start + 21

\* the bars the source hands back for the realized outcome of a cutoff: those
\* dated day .. day + 7, and day + 8 where the source includes its end date
ActualBars(day) ==
    Cardinality({k \in 1..NBars :
        /\ day <= BarDate(k)
        /\ BarDate(k) <= day + 7 + (IF source.endIncl THEN 1 ELSE 0)})

\* the rows of the report dated at a cutoff
RowsAt(day) == {r \in 1..Len(bt.results) : bt.results[r].date = DateStr(day)}

\* C11: a step whose realized-outcome data is unavailable (no bar, or one bar,
\* in the range) leaves no row in the report, so it counts neither as a hit
\* nor in the total, and the walk goes on to the next weekly cutoff.
C11_UnavailableDropped ==
    /\ \A k \in 1..Len(cutoffs) : ActualBars(cutoffs[k]) < 2 => RowsAt(cutoffs[k]) = {}
    /\ Len(bt.results) <= Cardinality({k \in 1..Len(cutoffs) : ActualBars(cutoffs[k]) >= 2})
    /\ bt.pc = "loop" => bt.current = bt.start + 7 * Len(cutoffs)

\* a walk that met a cutoff with no bar in range, then one with a single bar,
\* dropped both and kept the step after them
C11_Witness ==
    /\ Len(cutoffs) = 3
    /\ ActualBars(cutoffs[1]) = 0 /\ ActualBars(cutoffs[2]) = 1
    /\ RowsAt(cutoffs[1]) = {} /\ RowsAt(cutoffs[2]) = {}
    /\ RowsAt(cutoffs[3]) # {}


Agreeing(results) == {r \in 1..Len(results) : results[r].predicted = results[r].actual}

\* C13: in every Backtest Record hit is true exactly when the predicted
\* direction equals the actual direction, and the accuracy the backtest reports
\* is 100 x (records whose predicted and actual directions agree) / (records
\* retained).
C13_HitAndAccuracy ==
    /\ \A r \in 1..Len(bt.results) :
           bt.results[r].hit <=> bt.results[r].predicted = bt.results[r].actual
    /\ (bt.pc = "done" /\ bt.results # <<>>) =>
           bt.accuracy = RoundDiv(1000 * Cardinality(Agreeing(bt.results)),
                                  Len(bt.results))

\* a finished backtest of three records, one of them a hit: 33.3
C13_Witness ==
    /\ bt.pc = "done"
    /\ Len(bt.results) = 3
    /\ Cardinality(Agreeing(bt.results)) = 1
    /\ bt.accuracy = 333

\* the last bar dated day or earlier, 0 when there is none
LastBarUpTo(day) ==
    IF \E k \in 1..NBars : BarDate(k) <= day
    THEN CHOOSE k \in 1..NBars :
             /\ BarDate(k) <= day
             /\ \A j \in 1..NBars : BarDate(j) <= day => j <= k
    ELSE 0

\* the return, in hundredths of a percent, from the Close of the last bar the
\* prediction at cutoff day could see to the Close of the last bar of the
\* range the source answers for
ReturnFromCutoffBar(day) ==
    Let(Column([rows |-> Bars(source, 0)], "Close"), LAMBDA close :
        LET s == close[LastBarUpTo(day)]
            e == close[LastBarUpTo(day + 7 + (IF source.endIncl THEN 1 ELSE 0))]
        IN  RoundDiv(10000 * (e - s), s))

\* C14: for every retained backtest step with cutoff current the realized
\* return is computed from the Close of the bar dated current, the last bar the
\* prediction for that step could see, and the Close of the bar dated
\* current + 7 days, also when one of the two days is not a trading day.
C14_ReturnFromCutoffBar ==
    \A r \in 1..Len(bt.results) :
        LET day == bt.results[r].date.day
        IN  LastBarUpTo(day) > 0 =>
                bt.results[r].actual_return_pct = ReturnFromCutoffBar(day)

\* a retained step whose cutoff is a Saturday: the return in its record is
\* measured from the Close of the Monday after the cutoff
C14_Witness ==
    \E r \in 1..Len(bt.results) :
        LET day == bt.results[r].date.day
        IN  /\ LastBarUpTo(day) > 0
            /\ BarDate(LastBarUpTo(day)) < day
            /\ bt.results[r].actual_return_pct # ReturnFromCutoffBar(day)
            /\ Let(Column([rows |-> Bars(source, 0)], "Close"), LAMBDA close :
                   bt.results[r].actual_return_pct =
                       RoundDiv(10000 * (close[LastBarUpTo(day + 7)]
                                         - close[LastBarUpTo(day) + 1]),
                                close[LastBarUpTo(day) + 1]))

\* C15: a backtest step at which the predictor has fewer than 30 bars up to
\* the cutoff is dropped from the report and counts toward the accuracy neither
\* as a hit nor as a miss.
C15_ShortHistoryDropped ==
    \A r \in 1..Len(bt.results) : BarsUpTo(bt.results[r].date.day) >= 30

\* a finished backtest whose report holds the step of a cutoff with 25 bars of
\* history, as a FLAT prediction of confidence 0 that counts as a miss
C15_Witness ==
    /\ bt.pc = "done"
    /\ \E r \in 1..Len(bt.results) :
           /\ BarsUpTo(bt.results[r].date.day) = 25
           /\ bt.results[r].predicted = "FLAT"
           /\ bt.results[r].confidence = 0
           /\ bt.results[r].composite_score = 0
           /\ ~bt.results[r].hit
    /\ bt.accuracy = 0

\* Open, High, Low and Close of every bar dated day or earlier are one price
FlatUpTo(day) ==
    Let(SelectBars(Bars(source, 0), day - 250, day), LAMBDA rows :
        \A k \in 1..Len(rows) :
            /\ rows[k].Open = rows[1].Close /\ rows[k].High = rows[1].Close
            /\ rows[k].Low = rows[1].Close /\ rows[k].Close = rows[1].Close)

\* C16: for a history of at least 30 bars in which Open, High, Low and Close
\* are one constant price the prediction has composite 0, direction FLAT and
\* confidence 0.
C16_FlatInputNeutral ==
    \A i \in 1..Len(calls) :
        (/\ Scored(calls[i].outcome)
         /\ calls[i].as_of_date.kind = "date"
         /\ BarsUpTo(calls[i].as_of_date.day) >= 30
         /\ FlatUpTo(calls[i].as_of_date.day))
        => /\ calls[i].outcome.composite_score = 0
           /\ calls[i].outcome.direction = "FLAT"
           /\ calls[i].outcome.confidence = 0

\* a prediction on 30 bars of one constant price: RSI reads as neutral, the
\* MACD and moving-average rules and the parabolic SAR each vote bearish, the
\* composite is -0.1604 and the direction DOWN
C16_Witness ==
    \E i \in 1..Len(calls) :
        /\ Scored(calls[i].outcome)
        /\ calls[i].as_of_date.kind = "date"
        /\ BarsUpTo(calls[i].as_of_date.day) = 30
        /\ FlatUpTo(calls[i].as_of_date.day)
        /\ calls[i].outcome.components.technical.score = -2857
        /\ calls[i].outcome.components.momentum.score = -1538
        /\ calls[i].outcome.composite_score = -1604
        /\ calls[i].outcome.direction = "DOWN"
        /\ calls[i].outcome.confidence = 134

\* the Closes of the bars dated day or earlier rise from each bar to the next
RisingUpTo(day) ==
    Let(SelectBars(Bars(source, 0), day - 250, day), LAMBDA rows :
        \A k \in 2..Len(rows) : rows[k].Close > rows[k - 1].Close)

\* the texts of the reasons a prediction gives
ReasonTexts(outcome) == {outcome.reasoning[k].text : k \in 1..Len(outcome.reasoning)}

\* C17: for a strictly rising Close series of 30 bars (no down move, average
\* loss 0) the RSI sub-rule of the technical score contributes -2, its
\* overbought branch, the one that gives the reason "RSI overbought", and never
\* a BUY-side contribution.
C17_RisingIsOverbought ==
    \A i \in 1..Len(calls) :
        (/\ Scored(calls[i].outcome)
         /\ calls[i].as_of_date.kind = "date"
         /\ BarsUpTo(calls[i].as_of_date.day) >= 30
         /\ RisingUpTo(calls[i].as_of_date.day))
        => /\ "RSI overbought" \in ReasonTexts(calls[i].outcome)
           /\ ReasonTexts(calls[i].outcome) \cap {"RSI oversold", "RSI low"} = {}

\* a prediction on 30 rising bars: the RSI is NaN and its sub-rule takes the
\* neutral branch, contributing nothing
C17_Witness ==
    \E i \in 1..Len(calls) :
        /\ Scored(calls[i].outcome)
        /\ calls[i].as_of_date.kind = "date"
        /\ BarsUpTo(calls[i].as_of_date.day) = 30
        /\ RisingUpTo(calls[i].as_of_date.day)
        /\ Reason("RSI neutral", NaN) = calls[i].outcome.reasoning[1]
        /\ ReasonTexts(calls[i].outcome)
               \cap {"RSI overbought", "RSI high", "RSI oversold", "RSI low"} = {}

\* the indicators whose value at the last bar of the first n bars of a shape is
\* NaN
Undefined(shape, n) ==
    Let(Frame(shape, n), LAMBDA df :
    Let(Column(df, "High"), LAMBDA high :
    Let(Column(df, "Low"), LAMBDA low :
    Let(Column(df, "Close"), LAMBDA close :
    Let(calc_moving_averages(close, DefaultPeriods, n), LAMBDA mas :
    Let(calc_stochastic(high, low, close, 14, 3, n), LAMBDA kd :
        (IF IsNaN(calc_rsi(close, 14, n)) THEN {"rsi"} ELSE {})
        \cup (IF IsNaN(calc_bollinger(close, 20, 2, n).lower) THEN {"bollinger"} ELSE {})
        \cup (IF IsNaN(mas[5]) \/ IsNaN(mas[25]) THEN {"ma"} ELSE {})
        \cup (IF IsNaN(calc_awesome_oscillator(high, low, 5, 34, n)) THEN {"ao"} ELSE {})
        \cup (IF IsNaN(calc_parabolic_sar(high, low, close, InitialAf, StepAf, EndAf, n))
              THEN {"psar"} ELSE {})
        \cup (IF IsNaN(kd.k) \/ IsNaN(kd.d) THEN {"stochastic"} ELSE {})))))))

\* the reasons each rule gives when it adds to or takes from the score
RuleTexts ==
    [rsi |-> {"RSI oversold", "RSI low", "RSI overbought", "RSI high"},
     bollinger |-> {"Near lower Bollinger", "Near upper Bollinger"},
     ma |-> {"MA5 > MA25 (bullish)", "MA5 < MA25 (bearish)"},
     ao |-> {"AO bullish crossover", "AO bearish crossover", "AO positive", "AO negative"},
     psar |-> {"PSAR uptrend", "PSAR downtrend"},
     stochastic |-> {"Stochastic oversold", "Stochastic overbought", "Stochastic K>D",
                     "Stochastic K<D"}]

Texts(reasons) == {reasons[k].text : k \in 1..Len(reasons)}

\* the indicator a signal of generate_signals reads
SignalOf == [rsi |-> "rsi", bollinger |-> "bollinger", ma |-> "ma_cross"]

\* C18: an indicator value that is NaN propagates as no contribution: in
\* generate_signals, _calc_technical_score and generate_advanced_signals the
\* rule reading it casts no BUY or SELL vote and adds nothing to the score
\* (RSI, Bollinger bands, MA5/MA25, AO, PSAR, Stochastic %K/%D).
C18_NaNNoContribution ==
    \A i \in 1..Len(cal) :
        \A ind \in Undefined(cal[i].shape, cal[i].n) :
            /\ ind \in DOMAIN SignalOf =>
                   \/ SignalOf[ind] \notin DOMAIN cal[i].signals.signals
                   \/ cal[i].signals.signals[SignalOf[ind]] = "HOLD"
            /\ ind \in {"rsi", "bollinger", "ma"} =>
                   Texts(cal[i].technical.reasons) \cap RuleTexts[ind] = {}
            /\ ind \in {"ao", "psar", "stochastic"} =>
                   Texts(cal[i].advanced.reasons) \cap RuleTexts[ind] = {}

\* 24 bars: MA25 is NaN, generate_signals votes SELL on the moving-average
\* rule and the technical score takes 1 off for it; 14 bars: %K is defined, %D
\* is NaN and the Stochastic rule takes 0.5 off
C18_Witness ==
    /\ \E i \in 1..Len(cal) :
           /\ cal[i].n = 24
           /\ "ma" \in Undefined(cal[i].shape, cal[i].n)
           /\ cal[i].signals.signals["ma_cross"] = "SELL"
           /\ "MA5 < MA25 (bearish)" \in Texts(cal[i].technical.reasons)
    /\ \E i \in 1..Len(cal) :
           /\ cal[i].n = 14
           /\ Let(Frame(cal[i].shape, 14), LAMBDA df :
                  LET kd == calc_stochastic(Column(df, "High"), Column(df, "Low"),
                                            Column(df, "Close"), 14, 3, 14)
                  IN  ~IsNaN(kd.k) /\ IsNaN(kd.d))
           /\ "Stochastic K<D" \in Texts(cal[i].advanced.reasons)

\* the number of indicators of a result of generate_signals with a given signal
Count(signals, signal) == Cardinality({name \in DOMAIN signals : signals[name] = signal})

\* C19: the overall signal of generate_signals is BUY iff the BUY count
\* strictly exceeds the SELL count and strictly exceeds one third of the number
\* of indicators evaluated, SELL iff the same holds of the SELL count, and HOLD
\* in every other case, equal counts included.
C19_OverallVote ==
    \A i \in 1..Len(cal) :
        LET signals == cal[i].signals.signals
            buys  == Count(signals, "BUY")
            sells == Count(signals, "SELL")
            total == Cardinality(DOMAIN signals)
            overall == cal[i].signals.overall.signal
        IN  /\ overall = "BUY" <=> (buys > sells /\ 3 * buys > total)
            /\ overall = "SELL" <=> (sells > buys /\ 3 * sells > total)
            /\ overall = "HOLD" <=> ~(buys > sells /\ 3 * buys > total)
                                    /\ ~(sells > buys /\ 3 * sells > total)
            /\ cal[i].signals.overall.buy_count = buys
            /\ cal[i].signals.overall.sell_count = sells
            /\ cal[i].signals.overall.total = total

\* two BUY votes of four against none give BUY; one BUY vote of four against
\* none exceeds the SELL count but not a third, and gives HOLD
C19_Witness ==
    /\ \E i \in 1..Len(cal) :
           /\ Count(cal[i].signals.signals, "BUY") = 2
           /\ Count(cal[i].signals.signals, "SELL") = 0
           /\ cal[i].signals.overall.signal = "BUY"
    /\ \E i \in 1..Len(cal) :
           /\ Count(cal[i].signals.signals, "BUY") = 1
           /\ Count(cal[i].signals.signals, "SELL") = 0
           /\ Cardinality(DOMAIN cal[i].signals.signals) = 4
           /\ cal[i].signals.overall.signal = "HOLD"

\* a SELL by two votes to one, and a HOLD on equal counts of one each
C19_WitnessSell ==
    /\ \E i \in 1..Len(cal) :
           /\ Count(cal[i].signals.signals, "BUY") = 1
           /\ Count(cal[i].signals.signals, "SELL") = 2
           /\ cal[i].signals.overall.signal = "SELL"
    /\ \E i \in 1..Len(cal) :
           /\ Count(cal[i].signals.signals, "BUY") = 1
           /\ Count(cal[i].signals.signals, "SELL") = 1
           /\ cal[i].signals.overall.signal = "HOLD"

\* no Close of bars 2..i of a shape is below the Close before it: every loss,
\* and with it the smoothed average loss at bar i, is 0
NoLossUpTo(shape, i) ==
    Let(ShapeCloses(shape), LAMBDA series :
        \A k \in 2..i : series[k] >= series[k - 1])

\* C20: calc_rsi yields at every bar either NaN or a value in [0, 100], and
\* NaN whenever the smoothed average loss is 0 or fewer than `period` bars are
\* available.
C20_RsiRange ==
    \A e \in 1..Len(cal) :
        \A i \in 1..cal[e].n :
            LET v == cal[e].rsi[i]
            IN  /\ IsNaN(v) \/ (0 <= v /\ v <= 100 * 1000)
                /\ i < RsiPeriod => IsNaN(v)
                /\ NoLossUpTo(cal[e].shape, i) => IsNaN(v)

\* a rising series, NaN at every bar although 30 bars are there; and a series
\* with NaN at bar 13, a value at bar 14, and values 0 and strictly between 0
\* and 100 later on
C20_Witness ==
    /\ \E e \in 1..Len(cal) :
           /\ cal[e].n = 30 /\ NoLossUpTo(cal[e].shape, 30)
           /\ cal[e].shape # 1
           /\ \A i \in 1..30 : IsNaN(cal[e].rsi[i])
    /\ \E e \in 1..Len(cal) :
           /\ cal[e].n >= 30
           /\ IsNaN(cal[e].rsi[13]) /\ ~IsNaN(cal[e].rsi[14])
           /\ \E i \in 14..cal[e].n : cal[e].rsi[i] = 0
           /\ \E i \in 14..cal[e].n : cal[e].rsi[i] > 0 /\ cal[e].rsi[i] < 100 * 1000

\* the trend changes side between two consecutive bars
Flip(prev, cur) == (prev.trend > 0) # (cur.trend > 0)

\* C21: at every bar from the third on, a flip of the trend resets af to
\* initial_af and reseeds the extreme point to the bar's High (flip to up) or
\* Low (flip to down); without a flip af is min(end_af, af + step_af) when the
\* bar sets a new extreme point and unchanged otherwise.  So af lies between
\* initial_af and end_af at every bar from the second on.
C21_AfUpdate ==
    \A e \in 1..Len(cal) :
        /\ \A i \in 2..cal[e].n :
               InitialAf <= cal[e].psar[i].af /\ cal[e].psar[i].af <= EndAf
        /\ \A i \in 3..cal[e].n :
               LET prev == cal[e].psar[i - 1]
                   cur  == cal[e].psar[i]
                   new_extreme == IF prev.trend > 0 THEN cal[e].high[i] > prev.ep
                                  ELSE cal[e].low[i] < prev.ep
               IN  IF Flip(prev, cur)
                   THEN /\ cur.af = InitialAf
                        /\ cur.ep = IF cur.trend > 0 THEN cal[e].high[i] ELSE cal[e].low[i]
                   ELSE cur.af = IF new_extreme THEN Min2(EndAf, prev.af + StepAf)
                                 ELSE prev.af

\* one series on which af reaches end_af, is reset by a flip, stays as it was
\* on a bar without a new extreme and grows by step_af on one with it
C21_Witness ==
    \E e \in 1..Len(cal) :
        /\ \E i \in 3..cal[e].n :
               /\ Flip(cal[e].psar[i - 1], cal[e].psar[i])
               /\ cal[e].psar[i - 1].af > InitialAf /\ cal[e].psar[i].af = InitialAf
        /\ \E i \in 3..cal[e].n :
               /\ ~Flip(cal[e].psar[i - 1], cal[e].psar[i])
               /\ cal[e].psar[i].af = cal[e].psar[i - 1].af /\ cal[e].psar[i].af < EndAf
        /\ \E i \in 3..cal[e].n :
               /\ cal[e].psar[i - 1].af = EndAf - StepAf /\ cal[e].psar[i].af = EndAf
        /\ \E i \in 3..cal[e].n :
               /\ ~Flip(cal[e].psar[i - 1], cal[e].psar[i])
               /\ cal[e].psar[i - 1].af = EndAf /\ cal[e].psar[i].af = EndAf
               /\ cal[e].psar[i].ep # cal[e].psar[i - 1].ep

\* sar[i-1] + af[i-1] * (ep[i-1] - sar[i-1]), x SarScale
Candidate(prev) == prev.sar + RoundDiv(prev.af * (prev.ep * SarScale - prev.sar), 100)

\* C22: at every bar from the third on the candidate SAR is the prior SAR plus
\* af x (extreme point - prior SAR), clamped so that after an uptrend it is
\* not above the Lows of the two bars before and after a downtrend not below
\* their Highs; the trend flips at the bar exactly when its Low is below the
\* clamped SAR (uptrend) or its High above it (downtrend).
C22_Clamp ==
    \A e \in 1..Len(cal) :
        \A i \in 3..cal[e].n :
            LET prev == cal[e].psar[i - 1]
                cur  == cal[e].psar[i]
                high == cal[e].high
                low  == cal[e].low
            IN  IF prev.trend > 0
                THEN /\ cur.sar = Min2(Candidate(prev),
                                       Min2(low[i - 1], low[i - 2]) * SarScale)
                     /\ cur.sar <= low[i - 1] * SarScale
                     /\ cur.sar <= low[i - 2] * SarScale
                     /\ Flip(prev, cur) <=> low[i] * SarScale < cur.sar
                ELSE /\ cur.sar = Max2(Candidate(prev),
                                       Max2(high[i - 1], high[i - 2]) * SarScale)
                     /\ cur.sar >= high[i - 1] * SarScale
                     /\ cur.sar >= high[i - 2] * SarScale
                     /\ Flip(prev, cur) <=> high[i] * SarScale > cur.sar

\* one series with a bar where the clamp lowers the candidate of an uptrend,
\* one where it raises the candidate of a downtrend, and a flip each way
C22_Witness ==
    \E e \in 1..Len(cal) :
        /\ \E i \in 3..cal[e].n :
               /\ cal[e].psar[i - 1].trend > 0
               /\ cal[e].psar[i].sar < Candidate(cal[e].psar[i - 1])
        /\ \E i \in 3..cal[e].n :
               /\ cal[e].psar[i - 1].trend < 0
               /\ cal[e].psar[i].sar > Candidate(cal[e].psar[i - 1])
        /\ \E i \in 3..cal[e].n :
               /\ cal[e].psar[i - 1].trend > 0 /\ cal[e].psar[i].trend = -1
               /\ cal[e].low[i] * SarScale < cal[e].psar[i].sar
        /\ \E i \in 3..cal[e].n :
               /\ cal[e].psar[i - 1].trend < 0 /\ cal[e].psar[i].trend = 1
               /\ cal[e].high[i] * SarScale > cal[e].psar[i].sar

\* C23: the raw technical score has magnitude at most 7.0 and the raw momentum
\* aggregate at most 6.5, so the normalized scores are raw / 7.0 and raw / 6.5
\* as they stand: the clamp to [-1, 1] never changes them.  Raw scores are
\* held doubled.
C23_RawWithinNormalizers ==
    \A i \in 1..Len(cal) :
        /\ Abs(cal[i].technical.raw) <= 14
        /\ Abs(cal[i].advanced.score) <= 13
        /\ cal[i].momentum.raw = cal[i].advanced.score
        /\ 14 * cal[i].technical.score = cal[i].technical.raw * One
        /\ 13 * cal[i].momentum.score = cal[i].momentum.raw * One

\* the largest raw scores the price shapes give: technical -4.0, normalized to
\* -4/7, and momentum 3.0, normalized to 3/6.5
C23_Witness ==
    /\ \E i \in 1..Len(cal) :
           cal[i].technical.raw = -8 /\ 7 * cal[i].technical.score = -4 * One
    /\ \E i \in 1..Len(cal) :
           cal[i].momentum.raw = 6 /\ 13 * cal[i].momentum.score = 6 * One

\* the signed sum of the detectors' confidences (x10, so the sum is x1000)
SignedSum(results) ==
    LET Term(k) == IF results[k].signal = "BUY" THEN results[k].confidence
                   ELSE IF results[k].signal = "SELL" THEN -results[k].confidence
                   ELSE 0
    IN  Term(1) + Term(2) + Term(3) + Term(4)

\* C24 as claimed: the pattern aggregate score always lies in [-1, 1], so the
\* predictor's clamp of the pattern score never alters it.
C24_SelfBounded ==
    \A i \in 1..Len(cal) :
        /\ Abs(cal[i].patterns.aggregate.score) <= 1000
        /\ 1000 * cal[i].score.score = cal[i].patterns.aggregate.score * One

\* C24, amended: the pattern aggregate score is the signed sum of the four
\* detectors' confidence / 100 and lies in [-2.25, 1.4] (SELL confidences are
\* capped at 80, 85 and 60, BUY confidences at 80 and 60); it can leave
\* [-1, 1], and the predictor's clamp then sets the pattern score to -1 or 1.
C24_AggregateBound ==
    \A i \in 1..Len(cal) :
        LET agg == cal[i].patterns.aggregate.score
        IN  /\ agg = SignedSum(cal[i].patterns.results)
            /\ -2250 <= agg /\ agg <= 1400
            /\ cal[i].score.raw = agg
            /\ Abs(agg) <= 1000 => 1000 * cal[i].score.score = agg * One
            /\ agg > 1000 => cal[i].score.score = One
            /\ agg < -1000 => cal[i].score.score = -One

\* a double top at confidence 80 together with a head and shoulders at 48.1:
\* the aggregate is -1.281 and the pattern score is clamped to -1
C24_Witness ==
    \E i \in 1..Len(cal) :
        /\ cal[i].patterns.results[2].detected /\ cal[i].patterns.results[2].confidence = 800
        /\ cal[i].patterns.results[3].detected /\ cal[i].patterns.results[3].confidence = 481
        /\ cal[i].patterns.aggregate.score = -1281
        /\ cal[i].score.score = -One

\* C25: detect_double_bottom reports detected only when the last price is
\* strictly above the neckline, detect_double_top and detect_head_and_shoulders
\* only when it is strictly below; a detected pattern's confidence lies in
\* [0, 80] for double bottom and double top and in [0, 85] for head and
\* shoulders, the support/resistance confidence in [0, 60], and every result
\* with detected false has signal HOLD and confidence 0.
C25_ConfirmationAndCaps ==
    \A i \in 1..Len(cal) :
        LET r       == cal[i].patterns.results
            current == 100 * cal[i].prices[cal[i].n]
        IN  /\ r[1].detected =>
                   r[1].signal = "BUY" /\ current > r[1].neckline
                   /\ 0 <= r[1].confidence /\ r[1].confidence <= 800
            /\ r[2].detected =>
                   r[2].signal = "SELL" /\ current < r[2].neckline
                   /\ 0 <= r[2].confidence /\ r[2].confidence <= 800
            /\ r[3].detected =>
                   r[3].signal = "SELL" /\ current < r[3].neckline
                   /\ 0 <= r[3].confidence /\ r[3].confidence <= 850
            /\ 0 <= r[4].confidence /\ r[4].confidence <= 600
            /\ \A k \in 1..3 :
                   ~r[k].detected => r[k].signal = "HOLD" /\ r[k].confidence = 0

\* a double bottom confirmed above its neckline, and a double top at the cap
\* of 80 together with a head and shoulders, both confirmed below theirs
C25_Witness ==
    /\ \E i \in 1..Len(cal) :
           /\ cal[i].patterns.results[1].detected
           /\ 100 * cal[i].prices[cal[i].n] > cal[i].patterns.results[1].neckline
           /\ cal[i].patterns.results[1].confidence > 0
    /\ \E i \in 1..Len(cal) :
           /\ cal[i].patterns.results[2].detected
           /\ cal[i].patterns.results[2].confidence = 800
           /\ cal[i].patterns.results[3].detected
           /\ 100 * cal[i].prices[cal[i].n] < cal[i].patterns.results[3].neckline

\* the positions of the peaks of the smoothed window, oldest first
Peaks(recent) ==
    Let(Smoothed(recent), LAMBDA smoothed :
        LET IsMax(i) == /\ i >= 3 /\ i <= Len(recent) - 2
                        /\ smoothed[i] > smoothed[i - 1] /\ smoothed[i] > smoothed[i + 1]
                        /\ smoothed[i] > smoothed[i - 2] /\ smoothed[i] > smoothed[i + 2]
        IN  SelectSeq(Indices(Len(recent)), IsMax))

\* the two most recent strict local minima are a confirmed double bottom
LastBottomsPass(recent, tolerance) ==
    Let(LocalMinima(recent), LAMBDA minima :
        LET k == Len(minima)
        IN  /\ k >= 2
            /\ Similar(recent[minima[k - 1]], recent[minima[k]], tolerance)
            /\ Let(MaxSeq(recent, minima[k - 1], minima[k]), LAMBDA peak :
                   /\ 100 * peak > (100 + tolerance) * recent[minima[k - 1]]
                   /\ recent[Len(recent)] > peak))

\* the two most recent strict local maxima are a confirmed double top
LastTopsPass(recent, tolerance) ==
    Let(LocalMaxima(recent), LAMBDA maxima :
        LET k == Len(maxima)
        IN  /\ k >= 2
            /\ Similar(recent[maxima[k - 1]], recent[maxima[k]], tolerance)
            /\ Let(MinSeq(recent, maxima[k - 1], maxima[k]), LAMBDA trough :
                   /\ 100 * trough < (100 - tolerance) * recent[maxima[k - 1]]
                   /\ recent[Len(recent)] < trough))

\* the three most recent peaks are a confirmed head and shoulders
LastPeaksPass(recent, tolerance) ==
    Let(Peaks(recent), LAMBDA maxima :
        LET k == Len(maxima)
        IN  /\ k >= 3
            /\ recent[maxima[k - 1]] > recent[maxima[k - 2]]
            /\ recent[maxima[k - 1]] > recent[maxima[k]]
            /\ Similar(recent[maxima[k - 2]], recent[maxima[k]], tolerance)
            /\ 2 * recent[Len(recent)] < MinSeq(recent, maxima[k - 2], maxima[k - 1])
                                         + MinSeq(recent, maxima[k - 1], maxima[k]))

\* C26: the double bottom and double top detectors test only the most recent
\* pair of strict local extrema of the window and the head-and-shoulders
\* detector only the most recent three peaks: when that pair or triple fails a
\* condition the pattern is not detected, whatever the older extrema are.
C26_MostRecentOnly ==
    \A i \in 1..Len(cal) :
        LET r == cal[i].patterns.results
        IN  /\ r[1].detected => LastBottomsPass(Recent(cal[i].prices, 75), 3)
            /\ r[2].detected => LastTopsPass(Recent(cal[i].prices, 75), 3)
            /\ r[3].detected => LastPeaksPass(Recent(cal[i].prices, 100), 3)

\* a double top and a head and shoulders both reported from older peaks while
\* the most recent pair and the most recent three peaks fail the conditions
C26_Witness ==
    \E i \in 1..Len(cal) :
        /\ cal[i].n >= 100
        /\ cal[i].patterns.results[2].detected
        /\ ~LastTopsPass(Recent(cal[i].prices, 75), 3)
        /\ cal[i].patterns.results[3].detected
        /\ ~LastPeaksPass(Recent(cal[i].prices, 100), 3)

\* the indicator values the scoring rules read at the last of the first n bars
\* of a shape
Readings(shape, n) ==
    Let(Frame(shape, n), LAMBDA df :
    Let(Column(df, "High"), LAMBDA high :
    Let(Column(df, "Low"), LAMBDA low :
    Let(Column(df, "Close"), LAMBDA close :
    Let(calc_moving_averages(close, DefaultPeriods, n), LAMBDA mas :
        [rsi |-> calc_rsi(close, 14, n),
         macd |-> calc_macd(close, 12, 26, 9, n),
         macd_prev |-> calc_macd(close, 12, 26, 9, n - 1),
         ma5 |-> mas[5], ma25 |-> mas[25],
         ao |-> calc_awesome_oscillator(high, low, 5, 34, n),
         psar |-> calc_parabolic_sar(high, low, close, InitialAf, StepAf, EndAf, n),
         kd |-> calc_stochastic(high, low, close, 14, 3, n),
         last |-> close[n],
         before5 |-> IF n >= 6 THEN close[n - 5] ELSE 0])))))

\* the rules whose two operands are exactly equal
Ties(v) ==
    (IF v.macd.macd_line = v.macd.signal_line THEN {"macd"} ELSE {})
    \cup (IF ~IsNaN(v.ma5) /\ v.ma5 = v.ma25 THEN {"ma"} ELSE {})
    \cup (IF v.ao = 0 THEN {"ao"} ELSE {})
    \cup (IF v.last * SarScale = v.psar THEN {"psar"} ELSE {})
    \cup (IF /\ ~IsNaN(v.kd.k) /\ v.kd.k = v.kd.d
             /\ v.kd.k >= 20000 /\ v.kd.k <= 80000 THEN {"stochastic"} ELSE {})

\* the rules whose indicator is defined
Defined(v) ==
    {"macd"}
    \cup (IF ~IsNaN(v.rsi) THEN {"rsi"} ELSE {})
    \cup (IF ~IsNaN(v.ma5) /\ ~IsNaN(v.ma25) THEN {"ma"} ELSE {})
    \cup (IF ~IsNaN(v.ao) THEN {"ao"} ELSE {})
    \cup (IF ~IsNaN(v.psar) THEN {"psar"} ELSE {})
    \cup (IF ~IsNaN(v.kd.k) /\ ~IsNaN(v.kd.d) THEN {"stochastic"} ELSE {})
    \cup (IF v.before5 # 0 THEN {"momentum5"} ELSE {})

\* the reasons of the rules that RuleTexts does not list
MoreRuleTexts ==
    [macd |-> {"MACD bullish & strengthening", "MACD bullish",
               "MACD bearish & weakening", "MACD bearish"},
     momentum5 |-> {"5d momentum + (pullback risk)", "5d momentum (bounce potential)"}]

\* the reason that shows the bearish outcome of a rule on a tie
BearishText ==
    [ma |-> "MA5 < MA25 (bearish)", ao |-> "AO negative", psar |-> "PSAR downtrend",
     stochastic |-> "Stochastic K<D"]

\* the rule gave a reason, that is, it added to or took from the score
Fired(rule, entry) ==
    IF rule \in DOMAIN MoreRuleTexts
    THEN Texts(entry.technical.reasons) \cap MoreRuleTexts[rule] # {}
    ELSE Texts(entry.technical.reasons \o entry.advanced.reasons) \cap RuleTexts[rule] # {}

\* C27 as stated: exact ties resolve to the bearish side (MACD line equal to
\* its signal line scores -1, MA5 equal to MA25 -1, AO exactly 0 -0.5, price
\* equal to the Parabolic SAR -1, %K equal to %D outside the extreme zones
\* -0.5), and apart from OBV and the Bollinger position no rule has a neutral
\* outcome when its indicator is defined.
C27_NoNeutralOutcome ==
    \A i \in 1..Len(cal) :
        Let(Readings(cal[i].shape, cal[i].n), LAMBDA v :
            /\ "macd" \in Ties(v) => "MACD bearish" \in Texts(cal[i].technical.reasons)
            /\ \A rule \in Ties(v) \ {"macd"} :
                   BearishText[rule] \in Texts(cal[i].technical.reasons \o cal[i].advanced.reasons)
            /\ \A rule \in Defined(v) : Fired(rule, cal[i]))

\* C27: exact ties resolve to the bearish side: MA5 equal to MA25 takes the
\* "MA5 < MA25" branch, AO exactly 0 the "AO negative" branch, a price equal to
\* the Parabolic SAR the "PSAR downtrend" branch, %K equal to %D outside the
\* extreme zones the "K<D" branch, and MACD equal to its signal line the
\* bearish branch (the weakening one when the histogram fell).  The MACD, MA,
\* AO, PSAR and Stochastic rules always fire when their indicators are
\* defined; the RSI rule is neutral exactly for 40 <= RSI <= 60 and the 5-day
\* momentum rule exactly for a move of at most 3% either way.
C27_TiesBearish ==
    \A i \in 1..Len(cal) :
        Let(Readings(cal[i].shape, cal[i].n), LAMBDA v :
            /\ "macd" \in Ties(v) =>
                   IF v.macd.histogram < v.macd_prev.histogram
                   THEN "MACD bearish & weakening" \in Texts(cal[i].technical.reasons)
                   ELSE "MACD bearish" \in Texts(cal[i].technical.reasons)
            /\ \A rule \in Ties(v) \ {"macd"} :
                   BearishText[rule] \in Texts(cal[i].technical.reasons \o cal[i].advanced.reasons)
            /\ \A rule \in Defined(v) \ {"rsi", "momentum5"} : Fired(rule, cal[i])
            /\ "rsi" \in Defined(v) =>
                   (Fired("rsi", cal[i]) <=> (v.rsi < 40000 \/ v.rsi > 60000))
            /\ "momentum5" \in Defined(v) =>
                   (Fired("momentum5", cal[i])
                       <=> 100 * Abs(v.last - v.before5) > 3 * v.before5))

\* a flat frame where MACD, MA, AO and PSAR all tie and all score bearish while
\* the 5-day momentum rule, its move being 0%, contributes nothing; and a frame
\* where %K equals %D at mid-range and scores K<D
C27_Witness ==
    /\ \E i \in 1..Len(cal) :
           Let(Readings(cal[i].shape, cal[i].n), LAMBDA v :
               /\ {"macd", "ma", "ao", "psar"} \subseteq Ties(v)
               /\ {"MACD bearish", "MA5 < MA25 (bearish)"} \subseteq Texts(cal[i].technical.reasons)
               /\ {"AO negative", "PSAR downtrend"} \subseteq Texts(cal[i].advanced.reasons)
               /\ "momentum5" \in Defined(v)
               /\ ~Fired("momentum5", cal[i]))
    /\ \E i \in 1..Len(cal) :
           /\ "stochastic" \in Ties(Readings(cal[i].shape, cal[i].n))
           /\ "Stochastic K<D" \in Texts(cal[i].advanced.reasons)

\* C28: in every successful Prediction record the direction is consistent with
\* the composite_score the record returns (rounded to four decimals): UP only
\* if composite_score > 0.05, DOWN only if composite_score < -0.05, FLAT only
\* if -0.05 <= composite_score <= 0.05.
C28_DirectionMatchesRecord ==
    \A i \in 1..Len(cal) :
        LET r == cal[i].record
        IN  /\ r.direction = "UP" => r.composite_score > 500
            /\ r.direction = "DOWN" => r.composite_score < -500
            /\ r.direction = "FLAT" => (r.composite_score >= -500 /\ r.composite_score <= 500)

\* a record with direction UP whose composite, just above 0.05, is returned
\* rounded as 0.05
C28_Witness ==
    \E i \in 1..Len(cal) :
        /\ 20 * WeightedSum(i) > CompositeOne
        /\ cal[i].record.direction = "UP"
        /\ cal[i].record.composite_score = 500

\* the same of a Backtest Record: actual is UP only if the actual_return_pct it
\* returns (rounded to two decimals) is above 0.5, DOWN only if below -0.5,
\* FLAT only if within [-0.5, 0.5]
C28_ActualMatchesRecord ==
    \A i \in 1..Len(cal) :
        LET r == cal[i].result
        IN  /\ r.actual = "UP" => r.actual_return_pct > 50
            /\ r.actual = "DOWN" => r.actual_return_pct < -50
            /\ r.actual = "FLAT" => (r.actual_return_pct >= -50 /\ r.actual_return_pct <= 50)

\* a Backtest Record with actual UP whose return, just above 0.5%, is returned
\* rounded as 0.5
C28_ActualWitness ==
    \E i \in 1..Len(cal) :
        /\ 200 * (cal[i].end_price - cal[i].start_price) > cal[i].start_price
        /\ cal[i].result.actual = "UP"
        /\ cal[i].result.actual_return_pct = 50

\* the support/resistance result is near a level: the nearest support (the
\* highest reported) lies less than 2% of the current price below it, the
\* nearest resistance (the lowest reported) less than 2% above it
NearSupport(r, c100) ==
    /\ r.support_levels # <<>>
    /\ 100 * (c100 - MaxSeq(r.support_levels, 1, Len(r.support_levels))) < 2 * c100

NearResistance(r, c100) ==
    /\ r.resistance_levels # <<>>
    /\ 100 * (MinSeq(r.resistance_levels, 1, Len(r.resistance_levels)) - c100) < 2 * c100

\* min((1 - dist / 0.02) * 60, 60) to one decimal, x10, for a level `gap` (x100)
\* away from the current price
Scaled(gap, c100) ==
    LET conf == RoundDiv(600 * c100 - 30000 * gap, c100)
    IN  IF conf > 600 THEN 600 ELSE conf

\* C29: detect_support_resistance gives BUY only when the current price is
\* within 2% above the nearest support and no resistance lies within 2% above
\* it; whenever the nearest resistance is within 2% the signal is SELL with the
\* confidence of the resistance, a nearby support notwithstanding; with
\* neither level within 2% the signal is HOLD with confidence 0.
C29_ResistanceOverrides ==
    \A i \in 1..Len(cal) :
        LET r    == cal[i].patterns.results[4]
            c100 == 100 * cal[i].prices[cal[i].n]
        IN  /\ r.signal = "BUY" => (NearSupport(r, c100) /\ ~NearResistance(r, c100))
            /\ NearResistance(r, c100) =>
                   /\ r.signal = "SELL"
                   /\ r.confidence
                        = Scaled(MinSeq(r.resistance_levels, 1, Len(r.resistance_levels)) - c100,
                                 c100)
            /\ (NearSupport(r, c100) /\ ~NearResistance(r, c100)) =>
                   /\ r.signal = "BUY"
                   /\ r.confidence
                        = Scaled(c100 - MaxSeq(r.support_levels, 1, Len(r.support_levels)),
                                 c100)
            /\ (~NearSupport(r, c100) /\ ~NearResistance(r, c100)) =>
                   (r.signal = "HOLD" /\ r.confidence = 0)

\* a price with a support and a resistance both within 2%, answered SELL; and
\* a price with only a support within 2%, answered BUY
C29_Witness ==
    /\ \E i \in 1..Len(cal) :
           LET r    == cal[i].patterns.results[4]
               c100 == 100 * cal[i].prices[cal[i].n]
           IN  NearSupport(r, c100) /\ NearResistance(r, c100)
               /\ r.signal = "SELL" /\ r.confidence > 0
    /\ \E i \in 1..Len(cal) :
           LET r    == cal[i].patterns.results[4]
               c100 == 100 * cal[i].prices[cal[i].n]
           IN  NearSupport(r, c100) /\ ~NearResistance(r, c100)
               /\ r.resistance_levels # <<>>
               /\ r.signal = "BUY" /\ r.confidence > 0

Rejected(p) == "error" \in DOMAIN p.returned

\* the ledger is sound: cash is not negative and every ticker in positions
\* holds at least one share
LedgerSound(trader) ==
    /\ trader.cash >= 0
    /\ \A t \in DOMAIN trader.positions : trader.positions[t].shares >= 1

\* a buy whose cost exceeds the cash and a sell of more shares than are held
\* return an error record and leave cash, positions and transactions as they
\* were
RejectedUntouched ==
    /\ (/\ paper'.call.op = "buy"
        /\ paper'.call.price # NoPrice
        /\ paper'.call.price * paper'.call.shares > paper.trader.cash)
       => (Rejected(paper') /\ paper'.trader = paper.trader)
    /\ (/\ paper'.call.op = "sell"
        /\ \/ paper'.call.ticker \notin DOMAIN paper.trader.positions
           \/ paper.trader.positions[paper'.call.ticker].shares < paper'.call.shares)
       => (Rejected(paper') /\ paper'.trader = paper.trader)
    /\ Rejected(paper') => paper'.trader = paper.trader

\* C30: after any sequence of buy and sell calls with non-negative prices and
\* positive share counts the cash is never negative and every ticker present
\* in positions holds at least one share; a buy whose cost exceeds the cash
\* and a sell of more shares than are held each return an error record and
\* leave cash, positions and transactions unchanged.
C30_LedgerInvariant == [](LedgerSound(paper.trader)) /\ [][RejectedUntouched]_vars

\* after a buy, a sale of the whole position and a further buy, a buy that
\* costs more than the cash left has just been refused
C30_Witness ==
    /\ paper.call.op = "buy"
    /\ Rejected(paper)
    /\ paper.call.price * paper.call.shares > paper.trader.cash
    /\ Len(paper.trader.transactions) = 3
    /\ paper.trader.transactions[2].type = "SELL"
    /\ paper.trader.transactions[2].ticker \notin DOMAIN paper.trader.positions
    /\ DOMAIN paper.trader.positions # {}
    /\ paper.trader.cash < InitialCash

====
